---- MODULE Spec2Model ----
(***************************************************************************)
(* Model of the avsc-scraper repository (src/avantorsciences_scraper.py):  *)
(*   - clean_text_for_csv, the cell normalizer nested in save_to_csv;       *)
(*   - AvantorScraper.save_to_csv, the row flattener / CSV export;          *)
(*   - the specification phase of AvantorScraper.extract_product_data,      *)
(*     and the line splitters of its text strategies taken one line at a    *)
(*     time;                                                                *)
(*   - AvantorScraper.scrape_product, handle_country_popup (with            *)
(*     handle_cookie_banner) and search_product, the driver calls taken by  *)
(*     their outcome;                                                       *)
(*   - load_product_codes_from_csv, scrape_products_from_csv and            *)
(*     scrape_product_interactive of src/scrape_with_country_selection.py,  *)
(*     with AvantorScraper.close.                                           *)
(*                                                                         *)
(* Text is a sequence of tokens.  A token is either one whitespace          *)
(* character, one punctuation character (":", ";", "-") or a word: a        *)
(* non-empty run of other characters that the code never looks into.  No    *)
(* word is a prefix of another word, so comparing token sequences token by  *)
(* token agrees with Python's comparison of the strings.                    *)
(***************************************************************************)
EXTENDS Integers, Sequences, FiniteSets, TLC

VARIABLES
    normIn, normOut, normPc,                 \* one call of clean_text_for_csv
    lineIn, lineOut, linePc,                 \* one text line put through the line splitters
    products, ioFails, csvPc,                \* arguments / environment of save_to_csv
    csvRows, csvFieldnames,                  \* its locals rows, fieldnames
    csvWritten, csvHeader, csvLines,         \* the file it writes
    csvRet, csvLog,                          \* its return value and log level
    doc,                                     \* the page extract_product_data reads
    specifications,                          \* product_data["specifications"], in insertion order
    pc,                                      \* the method extract_product_data is at
    spec_section_found,                      \* its local of that name: "unbound", "False", "True"
    clicked,                                 \* the elements it clicked
    attempted,                               \* the methods it ran: name, map before, map after
    availability,                            \* product_data["availability"]
    aborted,                                 \* the outer except clause was taken
    scrapeArgs, scrapeEnv,                   \* arguments / environment of scrape_product
    scrapePc, scrapeLog,                     \* the statement it is at, the calls it made
    product_data, scrapeRet,                 \* its local product_data, its return value
    popupIn, popupPc, popup_found,           \* one call of handle_country_popup: page, local
    country_clicked, popupLog,               \* its local of that name, the clicks it tried
    searchEnv, searchPc, searchPos,          \* one call of search_product: page, position
    searchLog, searchRet,                    \* what it typed and clicked, its return value
    csvFile, loadPc, loadRet,                \* one call of load_product_codes_from_csv
    batchEnv, batchPc, index,                \* one run of a scrape_* entry point
    all_results, successful, failed,         \* locals of scrape_products_from_csv
    scraper, closes, savedResults, batchRet  \* scraper built, quit() calls, rows saved, return

normVars == <<normIn, normOut, normPc>>
lineVars == <<lineIn, lineOut, linePc>>
csvVars == <<products, ioFails, csvPc, csvRows, csvFieldnames,
             csvWritten, csvHeader, csvLines, csvRet, csvLog>>
extractVars == <<doc, specifications, pc, spec_section_found, clicked, attempted,
                 availability, aborted>>
scrapeVars == <<scrapeArgs, scrapeEnv, scrapePc, scrapeLog, product_data, scrapeRet>>
popupVars == <<popupIn, popupPc, popup_found, country_clicked, popupLog>>
searchVars == <<searchEnv, searchPc, searchPos, searchLog, searchRet>>
loadVars == <<csvFile, loadPc, loadRet>>
batchVars == <<batchEnv, batchPc, index, all_results, successful, failed,
               scraper, closes, savedResults, batchRet>>
driverVars == <<scrapeVars, popupVars, searchVars, loadVars, batchVars>>
vars == <<normVars, lineVars, csvVars, extractVars, driverVars>>

(***************************************************************************)
(* Bounds of the model.                                                    *)
(***************************************************************************)
MaxLen == 3        \* tokens in an input of clean_text_for_csv
MaxSpecs == 2      \* specification entries of one exported record
MaxRecords == 2    \* records in one export
MaxFeatures == 3   \* queries of extract_product_data that find something in one page
MaxLine == 5       \* tokens in one text line of a page
MaxElems == 2      \* country elements of the page behind the country popup
MaxRows == 3       \* data rows of the CSV file of product codes
MaxCodes == 2      \* product codes of one batch run

(***************************************************************************)
(* Python values.                                                          *)
(***************************************************************************)
None == <<"None">>            \* Python's None; "None" is no token of any text
NoneSpecs == <<<<None, None>>>>  \* None where a specification dict is expected

Whitespace == {" ", "\n", "\r", "\t", "\f"}

\* The tokens of the column names, in the order of Python's string comparison
\* (code points: control < ' ' < '-' < digits < ':' < ';' < 'A'..'Z' < 'a'..'z').
TokOrder ==
    <<"\t", "\n", "\f", "\r", " ", "-", "10", ":", ";",
      "Availability", "B", "Code", "Currency", "Description", "Model", "Name",
      "Number", "Price", "Product", "URL", "USD",
      "a", "b", "c", "d", "e", "m", "n", "u", "v", "x", "y">>

Rank(t) == CHOOSE i \in 1..Len(TokOrder) : TokOrder[i] = t

Range(s) == {s[i] : i \in DOMAIN s}

IsSpace(c) == c \in Whitespace

\* str.__lt__
RECURSIVE StrLess(_, _)
StrLess(a, b) ==
    IF b = <<>> THEN FALSE
    ELSE IF a = <<>> THEN TRUE
    ELSE IF Head(a) = Head(b) THEN StrLess(Tail(a), Tail(b))
    ELSE Rank(Head(a)) < Rank(Head(b))

\* str.strip()
RECURSIVE lstrip(_)
lstrip(s) ==
    IF s = <<>> THEN <<>>
    ELSE IF IsSpace(Head(s)) THEN lstrip(Tail(s))
    ELSE s

RECURSIVE rstrip(_)
rstrip(s) ==
    IF s = <<>> THEN <<>>
    ELSE IF IsSpace(s[Len(s)]) THEN rstrip(SubSeq(s, 1, Len(s) - 1))
    ELSE s

strip(s) == rstrip(lstrip(s))

StartsWith(s, p) == Len(p) <= Len(s) /\ SubSeq(s, 1, Len(p)) = p

\* str.replace(old, new): leftmost, non-overlapping, old non-empty
RECURSIVE replace(_, _, _)
replace(s, old, new) ==
    IF s = <<>> THEN <<>>
    ELSE IF StartsWith(s, old)
         THEN new \o replace(SubSeq(s, Len(old) + 1, Len(s)), old, new)
    ELSE <<Head(s)>> \o replace(Tail(s), old, new)

\* re.sub(r'\s+', ' ', text)
RECURSIVE re_sub_spaces(_)
re_sub_spaces(s) ==
    IF s = <<>> THEN <<>>
    ELSE IF IsSpace(Head(s)) THEN <<" ">> \o re_sub_spaces(lstrip(s))
    ELSE <<Head(s)>> \o re_sub_spaces(Tail(s))

\* sorted(list of distinct strings)
RECURSIVE sorted(_)
sorted(S) ==
    IF S = {} THEN <<>>
    ELSE LET m == CHOOSE x \in S : \A y \in S : ~StrLess(y, x)
         IN  <<m>> \o sorted(S \ {m})

(***************************************************************************)
(* clean_text_for_csv                                                      *)
(***************************************************************************)
replace_newlines(text) ==
    replace(replace(replace(text, <<"\r", "\n">>, <<" ">>), <<"\n">>, <<" ">>),
            <<"\r">>, <<" ">>)

\* Mutant: the final strip is missing.
clean_text_for_csv_nostrip(text) ==
    IF text = None THEN <<>>
    ELSE re_sub_spaces(replace_newlines(text))

clean_text_for_csv(text) ==
    IF text = None THEN <<>>
    ELSE strip(re_sub_spaces(replace_newlines(text)))

(***************************************************************************)
(* save_to_csv: the rows                                                   *)
(***************************************************************************)
ColProductCode == <<"Product", " ", "Code">>
ColProductName == <<"Product", " ", "Name">>
ColModelNumber == <<"Model", " ", "Number">>
ColDescription == <<"Description">>
ColPrice == <<"Price">>
ColCurrency == <<"Currency">>
ColAvailability == <<"Availability">>
ColURL == <<"URL">>

standard_fields ==
    <<ColProductCode, ColProductName, ColModelNumber, ColDescription,
      ColPrice, ColCurrency, ColAvailability, ColURL>>

\* The record key each standard column is read from.
FieldOf ==
    (ColProductCode :> "product_code") @@ (ColProductName :> "product_name") @@
    (ColModelNumber :> "model_number") @@ (ColDescription :> "description") @@
    (ColPrice :> "price") @@ (ColCurrency :> "currency") @@
    (ColAvailability :> "availability") @@ (ColURL :> "url")

\* dict.get(key, default)
Get(d, key, default) == IF key \in DOMAIN d THEN d[key] ELSE default

\* Mutant: the URL is normalized like the other fields.
StandardRow_cleanurl(product) ==
    [col \in Range(standard_fields) |->
        clean_text_for_csv(Get(product, FieldOf[col], <<>>))]

\* The dict literal row = {'Product Code': ..., ..., 'URL': product.get('url', '')}
StandardRow(product) ==
    [col \in Range(standard_fields) |->
        IF col = ColURL THEN Get(product, "url", <<>>)
        ELSE clean_text_for_csv(Get(product, FieldOf[col], <<>>))]

Joiner == <<";", " ">>

\* if clean_key not in row: row[clean_key] = ... else: row[clean_key] = ... + '; ' + ...
SetCell(row, clean_key, value) ==
    IF clean_key \notin DOMAIN row
    THEN row @@ (clean_key :> clean_text_for_csv(value))
    ELSE [row EXCEPT ![clean_key] =
            clean_text_for_csv(row[clean_key]) \o Joiner \o clean_text_for_csv(value)]

\* Mutant: only the last entry of the map reaches the row.
AddSpecifications_lastonly(row, specs) ==
    IF specs = <<>> THEN row
    ELSE LET clean_key == clean_text_for_csv(specs[Len(specs)][1])
         IN  IF clean_key # <<>> THEN SetCell(row, clean_key, specs[Len(specs)][2])
             ELSE row

\* for key, value in specs.items(): ...   (specs in insertion order)
RECURSIVE AddSpecifications(_, _)
AddSpecifications(row, specs) ==
    IF specs = <<>> THEN row
    ELSE LET clean_key == clean_text_for_csv(specs[1][1])
             next == IF clean_key # <<>> THEN SetCell(row, clean_key, specs[1][2])
                     ELSE row
         IN  AddSpecifications(next, Tail(specs))

\* One iteration of "for product in products"
BuildRow(product) ==
    LET specs == Get(product, "specifications", <<>>)
    IN  IF specs # NoneSpecs   \* isinstance(specs, dict)
        THEN AddSpecifications(StandardRow(product), specs)
        ELSE StandardRow(product)

BuildRows(prods) == [i \in DOMAIN prods |-> BuildRow(prods[i])]

(***************************************************************************)
(* save_to_csv: the header                                                 *)
(***************************************************************************)
all_keys(rows) == UNION {DOMAIN rows[i] : i \in DOMAIN rows}

ordered_keys(keys) == SelectSeq(standard_fields, LAMBDA k : k \in keys)

\* Mutant: the specification columns are not filtered against standard_fields.
spec_keys_unfiltered(keys) == sorted(keys)

spec_keys(keys) == sorted({k \in keys : k \notin Range(standard_fields)})

\* Mutant: the specification columns keep the order in which the rows bring them.
RECURSIVE FirstSeen(_, _)
FirstSeen(rows, seen) ==
    IF rows = <<>> THEN <<>>
    ELSE LET new == {k \in DOMAIN rows[1] : k \notin seen /\ k \notin Range(standard_fields)}
         IN  sorted(new) \o FirstSeen(Tail(rows), seen \cup new)

Fieldnames_firstseen(rows) == ordered_keys(all_keys(rows)) \o FirstSeen(rows, {})

Fieldnames(rows) == ordered_keys(all_keys(rows)) \o spec_keys(all_keys(rows))

(***************************************************************************)
(* save_to_csv: writing                                                    *)
(***************************************************************************)
\* csv.writer renders None as the empty string and a str as itself.
CsvField(v) == IF v = None THEN <<>> ELSE v

\* Mutant: a column the row lacks is filled with the column's own name.
CleanedRow_nofill(row, fieldnames) ==
    [j \in DOMAIN fieldnames |->
        IF fieldnames[j] \in DOMAIN row THEN row[fieldnames[j]] ELSE fieldnames[j]]

\* cleaned_row[key] = row[key] if key in row else ''
CleanedRow(row, fieldnames) ==
    [j \in DOMAIN fieldnames |->
        IF fieldnames[j] \in DOMAIN row THEN row[fieldnames[j]] ELSE <<>>]

\* writer.writerow(cleaned_row): the cells in fieldnames order
WriteRow(row, fieldnames) ==
    LET cleaned == CleanedRow(row, fieldnames)
    IN  [j \in DOMAIN fieldnames |-> CsvField(cleaned[j])]

(***************************************************************************)
(* extract_product_data: Python helpers                                    *)
(***************************************************************************)
\* str.lower(), word by word (a word without capitals is its own lower case).
LowerTok(t) ==
    CASE t = "Property" -> "property"
      [] t = "Value" -> "value"
      [] t = "Specification" -> "specification"
      [] t = "Home" -> "home"
      [] t = "Menu" -> "menu"
      [] t = "Price" -> "price"
      [] t = "Description" -> "description"
      [] t = "URL" -> "url"
      [] t = "SKU" -> "sku"
      [] t = "B" -> "b"
      [] OTHER -> t

lower(s) == [i \in DOMAIN s |-> LowerTok(s[i])]

\* The number of characters of a token (a word of the alphabet below).
CharLen(t) ==
    CASE t \in {"10", "to"} -> 2
      [] t \in {"SKU", "URL", "USD", "add", "buy", "sku", "url"} -> 3
      [] t \in {"Home", "Menu", "cart", "home", "menu"} -> 4
      [] t \in {"Price", "Value", "price", "value"} -> 5
      [] t \in {"return"} -> 6
      [] t \in {"Property", "overview", "property"} -> 8
      [] t \in {"Description", "description"} -> 11
      [] t \in {"Specification", "specification"} -> 13
      [] t = "w50" -> 50        \* a word of 50 characters
      [] t = "w200" -> 200      \* a word of 200 characters
      [] OTHER -> 1

\* len(text)
RECURSIVE len(_)
len(s) == IF s = <<>> THEN 0 ELSE CharLen(Head(s)) + len(Tail(s))

\* text.endswith(suffix)
endswith(s, suffix) ==
    Len(suffix) <= Len(s) /\ SubSeq(s, Len(s) - Len(suffix) + 1, Len(s)) = suffix

\* sep in text
RECURSIVE contains(_, _)
contains(s, sep) ==
    IF Len(s) < Len(sep) THEN FALSE
    ELSE StartsWith(s, sep) \/ contains(Tail(s), sep)

\* text.split(sep): every part, cur being the part under construction
RECURSIVE split(_, _, _)
split(s, sep, cur) ==
    IF s = <<>> THEN <<cur>>
    ELSE IF StartsWith(s, sep)
         THEN <<cur>> \o split(SubSeq(s, Len(sep) + 1, Len(s)), sep, <<>>)
    ELSE split(Tail(s), sep, Append(cur, Head(s)))

\* text.split(sep, 1): cut at the first sep only
RECURSIVE split1(_, _, _)
split1(s, sep, cur) ==
    IF s = <<>> THEN <<cur>>
    ELSE IF StartsWith(s, sep)
         THEN <<cur, SubSeq(s, Len(sep) + 1, Len(s))>>
    ELSE split1(Tail(s), sep, Append(cur, Head(s)))

Colon == <<":">>
Dash == <<" ", "-", " ">>
Newline == <<"\n">>

\* d[key] = value on a dict kept in insertion order
DictSet(d, key, value) ==
    IF \E i \in DOMAIN d : d[i][1] = key
    THEN [i \in DOMAIN d |-> IF d[i][1] = key THEN <<key, value>> ELSE d[i]]
    ELSE Append(d, <<key, value>>)

\* for x in xs: acc = Op(acc, x)
RECURSIVE ForEach(_, _, _)
ForEach(Op(_, _), acc, xs) ==
    IF xs = <<>> THEN acc
    ELSE ForEach(Op, Op(acc, Head(xs)), Tail(xs))

\* xs[:n]
Take(xs, n) == SubSeq(xs, 1, IF Len(xs) < n THEN Len(xs) ELSE n)

(***************************************************************************)
(* Method 0: ul.spec-table (lines 936-985)                                 *)
(***************************************************************************)
\* key = name_col[0].text.strip(); if key.endswith(':'): key = key[:-1].strip()
SpecTableKey(name) ==
    LET key == strip(name)
    IN  IF endswith(key, Colon) THEN strip(SubSeq(key, 1, Len(key) - 1)) ELSE key

\* One <li>: li.name / li.value are the texts of its first name-col and
\* value-col div, None when it has none.
SpecTableItem(specs, li) ==
    IF li.name # None /\ li.value # None
    THEN LET key == SpecTableKey(li.name)
             value == strip(li.value)
         IN  IF key # <<>> /\ value # <<>> THEN DictSet(specs, key, value) ELSE specs
    ELSE specs

\* for ul in spec_table_ul: ...; if specifications: break
RECURSIVE SpecTableUls(_, _)
SpecTableUls(specs, uls) ==
    IF uls = <<>> THEN specs
    ELSE LET s == ForEach(SpecTableItem, specs, Head(uls))
         IN  IF s # <<>> THEN s ELSE SpecTableUls(s, Tail(uls))

(***************************************************************************)
(* Table rows, definition lists and text lines, as the strategies read them *)
(***************************************************************************)
SectionStoplist == {<<"property">>, <<"value">>, <<"specification">>}
TableStoplist == {<<>>, <<"property">>, <<"value">>, <<"specification">>}
NoStoplist == {}

\* cells = row.find_elements(td | th); first cell the name, second the value
RowEntry(specs, cells, stoplist) ==
    IF Len(cells) >= 2
    THEN LET key == strip(cells[1])
             value == strip(cells[2])
         IN  IF key # <<>> /\ value # <<>> /\ lower(key) \notin stoplist
             THEN DictSet(specs, key, value)
             ELSE specs
    ELSE specs

SectionRow(specs, cells) == RowEntry(specs, cells, SectionStoplist)
SectionTable(specs, table) == ForEach(SectionRow, specs, table)

TableRow(specs, cells) == RowEntry(specs, cells, TableStoplist)

PlainRow(specs, cells) == RowEntry(specs, cells, NoStoplist)

\* Mutant: a term that is skipped shifts the descriptions of the terms after it.
RECURSIVE DlPairs_shifted(_, _, _)
DlPairs_shifted(specs, dl, i) ==
    IF i > Len(dl.dts) \/ i > Len(dl.dds) THEN specs
    ELSE LET skipped == Cardinality({j \in 1..(i - 1) : strip(dl.dts[j]) = <<>>})
             k == IF i + skipped <= Len(dl.dds) THEN i + skipped ELSE Len(dl.dds)
             key == strip(dl.dts[i])
             value == strip(dl.dds[k])
             s == IF key # <<>> /\ value # <<>> THEN DictSet(specs, key, value) ELSE specs
         IN  DlPairs_shifted(s, dl, i + 1)

\* for i in range(min(len(dts), len(dds))): pair dts[i] with dds[i]
RECURSIVE DlPairs(_, _, _)
DlPairs(specs, dl, i) ==
    IF i > Len(dl.dts) \/ i > Len(dl.dds) THEN specs
    ELSE LET key == strip(dl.dts[i])
             value == strip(dl.dds[i])
             s == IF key # <<>> /\ value # <<>> THEN DictSet(specs, key, value) ELSE specs
         IN  DlPairs(s, dl, i + 1)

DlEntries(specs, dl) == DlPairs(specs, dl, 1)

\* Mutant: the left side of the cut is taken as the key untrimmed.
KeyOf_untrimmed(text, sep) == split1(text, sep, <<>>)[1]

\* key, value = the two sides of text.split(sep, 1), stripped
KeyOf(text, sep) == strip(split1(text, sep, <<>>)[1])
ValueOf(text, sep) == strip(split1(text, sep, <<>>)[2])

\* Lines 1061-1074: a line with exactly one ':' (else exactly one ' - ') and
\* a key of 3..79 characters.
SectionLine(specs, rawline) ==
    LET line == strip(rawline)
        sep == IF contains(line, Colon) /\ Len(split(line, Colon, <<>>)) = 2 THEN Colon
               ELSE IF contains(line, Dash) /\ Len(split(line, Dash, <<>>)) = 2 THEN Dash
               ELSE <<>>
    IN  IF sep = <<>> THEN specs
        ELSE LET key == KeyOf(line, sep)
                 value == ValueOf(line, sep)
             IN  IF key # <<>> /\ value # <<>> /\ 2 < len(key) /\ len(key) < 80
                 THEN DictSet(specs, key, value)
                 ELSE specs

\* Lines 1091-1098: a line holding a ':' is cut at the first one.
SiblingLine(specs, line) ==
    IF contains(line, Colon)
    THEN LET key == KeyOf(line, Colon)
             value == ValueOf(line, Colon)
         IN  IF key # <<>> /\ value # <<>> THEN DictSet(specs, key, value) ELSE specs
    ELSE specs

SiblingText(specs, rawtext) ==
    LET text == strip(rawtext)
    IN  IF text # <<>> THEN ForEach(SiblingLine, specs, split(text, Newline, <<>>))
        ELSE specs

(***************************************************************************)
(* The labeled section (lines 987-1111)                                    *)
(***************************************************************************)
\* Lines 1024-1074, the section's container found: its tables, then (map
\* still empty) its definition lists, then (still empty) its text lines.
FromContainer(specs, parent) ==
    LET s1 == ForEach(SectionTable, specs, parent.tables)
        s2 == IF s1 = <<>> THEN ForEach(DlEntries, s1, parent.dls) ELSE s1
        s3 == IF s2 = <<>>
              THEN ForEach(SectionLine, s2, split(parent.text, Newline, <<>>))
              ELSE s2
    IN  s3

\* Lines 1083-1100, no container: the first five following siblings.
FromSiblings(specs, siblings) == ForEach(SiblingText, specs, Take(siblings, 5))

Interactive(e) == e.tag \in {"button", "a"}

\* for selector in spec_section_selectors: ... over the elements the
\* selectors find, in selector order.  st = [specs, found, clicked].
RECURSIVE SectionLoop(_, _)
SectionLoop(st, elems) ==
    IF elems = <<>> THEN st
    ELSE LET e == Head(elems)
         IN  IF Interactive(e) /\ e.click = "fail"
             THEN SectionLoop(st, Tail(elems))      \* both clicks raise: continue
             ELSE LET clicked1 == IF Interactive(e)
                                  THEN Append(st.clicked, [tag |-> e.tag, how |-> e.click])
                                  ELSE st.clicked
                      specs1 == IF e.parent.present
                                THEN FromContainer(st.specs, e.parent)
                                ELSE FromSiblings(st.specs, e.siblings)
                      st1 == [specs |-> specs1, found |-> "True", clicked |-> clicked1]
                  IN  IF specs1 # <<>> THEN st1 ELSE SectionLoop(st1, Tail(elems))

\* Lines 988-1108: only the assignment spec_section_found = False is under
\* the "if not specifications"; the loop runs in either case.
SectionResult(specs, found, clicks, elems) ==
    SectionLoop([specs |-> specs,
                 found |-> IF specs = <<>> THEN "False" ELSE found,
                 clicked |-> clicks], elems)

(***************************************************************************)
(* Method 1: tables by class (lines 1113-1150)                             *)
(***************************************************************************)
\* for selector in spec_selectors: rows of the element found; break once the
\* map is non-empty.  tables = what the matching selectors find, in order.
RECURSIVE SpecTables(_, _)
SpecTables(specs, tables) ==
    IF tables = <<>> THEN specs
    ELSE LET s == ForEach(TableRow, specs, Head(tables))
         IN  IF s # <<>> THEN s ELSE SpecTables(s, Tail(tables))

(***************************************************************************)
(* Methods 2-10 (lines 1152-1458)                                          *)
(***************************************************************************)
\* Method 2: per selector every <dl> found; break once the map is non-empty.
RECURSIVE DlSelectors(_, _)
DlSelectors(specs, lists) ==
    IF lists = <<>> THEN specs
    ELSE LET s == ForEach(DlEntries, specs, Head(lists))
         IN  IF s # <<>> THEN s ELSE DlSelectors(s, Tail(lists))

\* Method 3: item.key / item.value are the texts of the first label-like and
\* value-like descendant, None when there is none.
DivItem(specs, item) ==
    IF item.key # None /\ item.value # None
    THEN LET key == strip(item.key)
             value == strip(item.value)
         IN  IF key # <<>> /\ value # <<>> THEN DictSet(specs, key, value) ELSE specs
    ELSE specs

\* Method 4: the text of a <li>, cut at the first ':' or else the first ' - '.
ListItem(specs, rawtext) ==
    LET text == strip(rawtext)
        sep == IF contains(text, Colon) THEN Colon
               ELSE IF contains(text, Dash) THEN Dash
               ELSE <<>>
    IN  IF sep = <<>> THEN specs
        ELSE LET key == KeyOf(text, sep)
                 value == ValueOf(text, sep)
             IN  IF key # <<>> /\ value # <<>> THEN DictSet(specs, key, value) ELSE specs

SpecList(specs, ul) == ForEach(ListItem, specs, ul)

\* Method 5: the rows of every accordion / tab section (no break in between).
AccordionSection(specs, rows) == ForEach(PlainRow, specs, rows)

\* Method 6: lines of a tagged element, cut at the first ':'.
GenericLine(specs, line) ==
    IF contains(line, Colon)
    THEN LET key == KeyOf(line, Colon)
             value == ValueOf(line, Colon)
         IN  IF key # <<>> /\ value # <<>> /\ len(key) < 100 /\ len(value) < 500
             THEN DictSet(specs, key, value)
             ELSE specs
    ELSE specs

GenericDiv(specs, rawtext) ==
    ForEach(GenericLine, specs, split(strip(rawtext), Newline, <<>>))

\* Method 7: str(value) of a JSON scalar; jv.v is the scalar as the script
\* writes it (the characters of a string, the digits of a number, true or
\* false).  A float is printed in its shortest form: 1.50 as 1.5.
PyStr(jv) ==
    CASE jv.t = "str" -> jv.v
      [] jv.t = "int" -> jv.v
      [] jv.t = "float" -> IF jv.v = <<"1.50">> THEN <<"1.5">> ELSE jv.v
      [] jv.t = "bool" -> IF jv.v = <<"true">> THEN <<"True">> ELSE <<"False">>
      [] OTHER -> <<>>

JsonStoplist == {<<"@type">>, <<"@context">>, <<"name">>, <<"image">>, <<"description">>}

\* isinstance(value, (str, int, float)); bool is a subclass of int.
IsScalar(jv) == jv.t \in {"str", "int", "float", "bool"}

JsonProperty(specs, kv) ==
    IF kv[1] \notin JsonStoplist /\ IsScalar(kv[2])
    THEN DictSet(specs, kv[1], PyStr(kv[2]))
    ELSE specs

\* One <script type="application/ld+json">.  script.kind is "item" when it
\* parses to a dict whose 'offers' is a dict holding an 'itemOffered' dict;
\* every other shape (unparsable, no dict, no offers, itemOffered not a
\* dict) adds nothing.
JsonScript(specs, script) ==
    IF script.kind = "item" THEN ForEach(JsonProperty, specs, script.props) ELSE specs

\* Method 8: any table with at least two rows.
NavStoplist ==
    {<<"home">>, <<"products">>, <<"services">>, <<"about">>, <<"contact">>, <<"menu">>}

\* Mutant: the navigation terms are not filtered out.
AnyRow_nonav(specs, cells) == RowEntry(specs, cells, NoStoplist)

AnyRow(specs, cells) ==
    IF Len(cells) >= 2
    THEN LET key == strip(cells[1])
             value == strip(cells[2])
         IN  IF key # <<>> /\ value # <<>> /\ len(key) > 0 /\ len(key) < 100
                /\ lower(key) \notin NavStoplist
             THEN DictSet(specs, key, value)
             ELSE specs
    ELSE specs

RECURSIVE AnyTables(_, _)
AnyTables(specs, tables) ==
    IF tables = <<>> THEN specs
    ELSE IF Len(Head(tables)) >= 2
         THEN LET s == ForEach(AnyRow, specs, Head(tables))
              IN  IF s # <<>> THEN s ELSE AnyTables(s, Tail(tables))
    ELSE AnyTables(specs, Tail(tables))

\* Method 9: 'price' in key.lower() and so on: the words that hold one of
\* the skip words, and the phrase 'add to'.
SkipWords == {"price", "cart", "buy", "description", "overview", "return"}

HasSkipWord(key) ==
    \/ \E i \in DOMAIN key : LowerTok(key[i]) \in SkipWords
    \/ contains(lower(key), <<"add", " ", "to">>)

FreeTextLine(specs, rawline) ==
    LET line == strip(rawline)
        colon == contains(line, Colon) /\ Len(split(line, Colon, <<>>)) = 2
        dash == ~colon /\ contains(line, Dash) /\ Len(split(line, Dash, <<>>)) = 2
        sep == IF colon THEN Colon ELSE Dash
    IN  IF ~colon /\ ~dash THEN specs
        ELSE LET key == KeyOf(line, sep)
                 value == ValueOf(line, sep)
             IN  IF key # <<>> /\ value # <<>> /\ 2 < len(key) /\ len(key) < 50
                    /\ len(value) < 200 /\ (colon => ~HasSkipWord(key))
                 THEN DictSet(specs, key, value)
                 ELSE specs

FreeText(specs, rawtext) ==
    ForEach(FreeTextLine, specs, split(strip(rawtext), Newline, <<>>))

\* Method 10: 'spec' in attr_name.lower() or 'property' in attr_name.lower()
SpecAttributeNames == {"data-spec", "data-property", "data-specs"}

DataAttribute(specs, attr) ==
    IF attr[1] \in SpecAttributeNames
    THEN DictSet(specs, <<attr[1]>>, attr[2])
    ELSE specs

DataElement(specs, attrs) == ForEach(DataAttribute, specs, attrs)

(***************************************************************************)
(* The document: what each query of extract_product_data finds             *)
(***************************************************************************)
EmptyDoc ==
    [spec_uls |-> <<>>,        \* ul.spec-table elements, each its <li>s
     sections |-> <<>>,        \* elements the section selectors find, in order
     spec_tables |-> <<>>,     \* tables the class selectors find, in order
     dl_lists |-> <<>>,        \* per matching dl selector, its <dl>s
     spec_items |-> <<>>,      \* key/value div items
     spec_lists |-> <<>>,      \* <ul>s of a specification block, each its <li> texts
     accordions |-> <<>>,      \* accordion / tab sections, each its rows
     spec_divs |-> <<>>,       \* texts of the tagged elements
     json_ld |-> <<>>,         \* ld+json scripts
     other_tables |-> <<>>,    \* the tables no other query finds
     text_elems |-> <<>>,      \* texts of the content containers
     data_elems |-> <<>>,      \* per element with a data attribute, its attributes
     raises |-> {},            \* the methods whose query raises
     availability |-> <<>>]    \* texts of the availability elements

\* //table finds every table of the page.
AllTables(d) ==
    LET sectionTables(acc, e) == acc \o e.parent.tables
    IN  ForEach(sectionTables, <<>>, d.sections) \o d.spec_tables \o d.other_tables

Li(name, value) == [name |-> name, value |-> value]
Item(key, value) == [key |-> key, value |-> value]
Dl(dts, dds) == [dts |-> dts, dds |-> dds]
NoParent == [present |-> FALSE, tables |-> <<>>, dls |-> <<>>, text |-> <<>>]
Parent(tables, dls, text) ==
    [present |-> TRUE, tables |-> tables, dls |-> dls, text |-> text]
Elem(tag, click, parent, siblings) ==
    [tag |-> tag, click |-> click, parent |-> parent, siblings |-> siblings]
Js(t, v) == [t |-> t, v |-> v]
Script(kind, props) == [kind |-> kind, props |-> props]

TableB == << <<<<"b">>, <<" ", "y">>>> >>
TableColon == << <<<<"b", ":">>, <<"y">>>> >>
TableHead == << <<<<"Property">>, <<"Value">>>>, <<<<"c">>>> >>
TableNav == << <<<<"Home">>, <<"x">>>>, <<<<"Menu">>, <<"y">>>> >>
TableTwo == << <<<<"c">>, <<"y">>>>, <<<<"d">>, <<"x">>, <<"e">>>> >>

DlShort == Dl(<<<<"a">>, <<"b">>>>, <<<<"x">>>>)
DlGap == Dl(<<<<" ">>, <<"b">>>>, <<<<"x">>, <<"y">>, <<"x">>>>)

Features ==
    {<<"spec_uls", u>> : u \in
        {<< <<Li(<<"a", ":">>, <<"x">>)>> >>,
         << <<Li(<<"a", ":", ":">>, <<"x">>)>> >>,
         << <<Li(None, <<"x">>)>>,
            <<Li(<<" ", "b", " ">>, <<"y">>), Li(<<"b">>, <<"x">>)>>,
            <<Li(<<"c">>, <<"x">>)>> >>,
         << <<Li(<<":">>, <<"x">>), Li(<<"a">>, <<" ">>)>> >>}}
    \cup {<<"sections", e>> : e \in
        {<<Elem("div", "ok", Parent(<<TableB>>, <<>>, <<>>), <<>>)>>,
         <<Elem("button", "ok", Parent(<<>>, <<DlShort>>, <<>>), <<>>)>>,
         <<Elem("a", "js", NoParent, << <<"b", ":", "y", "\n", "c">> >>)>>,
         <<Elem("button", "fail", NoParent, <<>>),
           Elem("div", "ok",
                Parent(<<>>, <<>>, <<"SKU", " ", ":", " ", "x", "\n", "c", " ", "-", " ", "y">>),
                <<>>)>>,
         <<Elem("div", "ok", Parent(<<TableHead>>, <<>>, <<>>), <<>>),
           Elem("a", "ok", Parent(<<>>, <<>>, <<>>), <<>>)>>,
         <<Elem("button", "fail", NoParent, <<>>)>>}}
    \cup {<<"spec_tables", t>> : t \in
        {<<TableB>>, <<TableColon>>, <<TableHead>>, <<TableHead, TableB, TableColon>>}}
    \cup {<<"dl_lists", l>> : l \in {<< <<DlShort>> >>, << <<DlGap>>, <<DlShort>> >>}}
    \cup {<<"spec_items", i>> : i \in
        {<<Item(<<"a">>, <<"x">>)>>, <<Item(None, <<"x">>), Item(<<"b", ":">>, <<"y">>)>>}}
    \cup {<<"spec_lists", l>> : l \in
        {<< <<<<"a", ":", " ", "x">>, <<"c">>>> >>,
         << <<<<"b", " ", "-", " ", "y">>, <<":", "x">>>> >>}}
    \cup {<<"accordions", a>> : a \in
        {<< <<<<<<"a">>, <<"x">>>>>> >>, << <<<<<<"a">>>>>>, <<<<<<"Home">>, <<"y">>>>>> >>}}
    \cup {<<"spec_divs", t>> : t \in
        {<< <<"a", ":", "x", "\n", "c">> >>, << <<"b", ":", "x", ":", "y">> >>}}
    \cup {<<"json_ld", j>> : j \in
        {<<Script("invalid", <<>>)>>,
         <<Script("item", <<<<<<"name">>, Js("str", <<"n">>)>>,
                            <<<<"sku">>, Js("str", <<"x">>)>>,
                            <<<<"weight">>, Js("int", <<"5">>)>>,
                            <<<<"height">>, Js("float", <<"1.50">>)>>,
                            <<<<"brand">>, Js("dict", <<>>)>>>>)>>,
         <<Script("noitem", <<>>),
           Script("item", <<<<<<"stock">>, Js("bool", <<"true">>)>>,
                            <<<<"mpn">>, Js("str", <<>>)>>,
                            <<<<"tags">>, Js("list", <<>>)>>,
                            <<<<"gtin">>, Js("null", <<>>)>>>>)>>}}
    \cup {<<"other_tables", t>> : t \in {<<TableNav>>, <<TableB>>, <<TableNav, TableTwo>>}}
    \cup {<<"text_elems", t>> : t \in
        {<< <<"SKU", ":", "x", "\n", "Price", " ", "m", ":", "y">> >>,
         << <<"SKU", " ", "-", " ", "y">> >>}}
    \cup {<<"data_elems", a>> : a \in
        {<< <<<<"data-spec", <<"x">>>>, <<"class", <<"c">>>>>> >>,
         << <<<<"data-property", <<>>>>>> >>}}
    \cup {<<"raises", r>> : r \in {{"m0"}, {"m10"}}}
    \cup {<<"availability", a>> : a \in {<< <<" ", "y", " ">> >>}}

\* The documents: at most n of the queries find something.
RECURSIVE DocsWith(_)
DocsWith(n) ==
    IF n = 0 THEN {EmptyDoc}
    ELSE LET smaller == DocsWith(n - 1)
         IN  smaller \cup {[d EXCEPT ![f[1]] = f[2]] : d \in smaller, f \in Features}

(***************************************************************************)
(* Inputs                                                                  *)
(***************************************************************************)
SeqsUpTo(A, n) == UNION {[1..k -> A] : k \in 0..n}

NormAlphabet == {"a", " ", "\n", "\r", "\t", "\f"}

NormInputs == {None} \cup SeqsUpTo(NormAlphabet, MaxLen)

\* One line of element.text.split('\n'): words (w50 and w200 stand for words
\* of 50 and 200 characters), spaces, colons and hyphens.
LineAlphabet == {"SKU", "a", "Price", "w50", "w200", ":", " ", "-"}

LineInputs == SeqsUpTo(LineAlphabet, MaxLine)

\* A record as extract_product_data returns it: every key present.
ProfileClean ==
    ("product_code" :> <<"c">>) @@ ("product_name" :> <<"n">>) @@
    ("model_number" :> None) @@ ("description" :> <<"d">>) @@
    ("price" :> <<"10">>) @@ ("currency" :> <<"USD">>) @@
    ("availability" :> None) @@ ("url" :> <<"u">>)

\* The same with text that is not normalized.
ProfileMessy ==
    ("product_code" :> <<"c">>) @@ ("product_name" :> <<" ", "n", "\n", "m">>) @@
    ("model_number" :> None) @@ ("description" :> <<"d", "\r", "\n", "e">>) @@
    ("price" :> <<"10", " ", " ">>) @@ ("currency" :> None) @@
    ("availability" :> <<"\t">>) @@ ("url" :> <<"u", " ", " ", "v">>)

\* The placeholder scrape_products_from_csv appends for a failed product
\* (src/scrape_with_country_selection.py:260-264): no url, no specifications.
ProfileError ==
    ("product_code" :> <<"c">>) @@ ("product_name" :> None) @@ ("error" :> <<"e">>)

\* Every field null, specifications included.
ProfileNulls ==
    ("product_code" :> None) @@ ("product_name" :> None) @@
    ("model_number" :> None) @@ ("description" :> None) @@
    ("price" :> None) @@ ("currency" :> None) @@
    ("availability" :> None) @@ ("url" :> None) @@ ("specifications" :> NoneSpecs)

\* Specification maps: sequences of <<key, value>> with distinct keys, in
\* insertion order.
SpecMaps(keys, vals, n) ==
    {s \in SeqsUpTo(keys \X vals, n) :
        \A i, j \in DOMAIN s : i # j => s[i][1] # s[j][1]}

RichKeys == {<<"a">>, <<" ", "a">>, <<"b">>, <<"B">>, <<"Price">>,
             <<"Price", " ">>, <<"URL">>, <<" ">>}
RichVals == {<<"x">>, <<>>, <<"x", "\n", "y">>}
LeanKeys == {<<"a">>, <<"b">>, <<"Price">>}
LeanVals == {<<"x">>}

WithSpecs(profile, specs) == profile @@ ("specifications" :> specs)

RichRecords ==
    {WithSpecs(p, s) : p \in {ProfileClean, ProfileMessy},
                       s \in SpecMaps(RichKeys, RichVals, MaxSpecs)}

LeanRecords ==
    {WithSpecs(ProfileClean, s) : s \in SpecMaps(LeanKeys, LeanVals, MaxSpecs)}
        \cup {ProfileError, ProfileNulls}

\* One detailed record, or up to MaxRecords plainer ones.
CsvInputs == {<<r>> : r \in RichRecords} \cup SeqsUpTo(LeanRecords, MaxRecords)

(***************************************************************************)
(* Initial states                                                          *)
(***************************************************************************)
NormIdle == normIn = None /\ normOut = None /\ normPc = "idle"

\* What each line splitter makes of an empty map, none having run.
NoLineOut == [section |-> <<>>, sibling |-> <<>>, list |-> <<>>, generic |-> <<>>, free |-> <<>>]

LineIdle == lineIn = <<>> /\ lineOut = NoLineOut /\ linePc = "idle"

CsvIdle ==
    /\ products = <<>> /\ ioFails = FALSE /\ csvPc = "idle"
    /\ csvRows = <<>> /\ csvFieldnames = <<>>
    /\ csvWritten = FALSE /\ csvHeader = <<>> /\ csvLines = <<>>
    /\ csvRet = "unset" /\ csvLog = "none"

ExtractIdle ==
    /\ doc = EmptyDoc /\ specifications = <<>> /\ pc = "idle"
    /\ spec_section_found = "unbound" /\ clicked = <<>> /\ attempted = <<>>
    /\ availability = None /\ aborted = FALSE

\* The calls of the driving code at rest: the specifications of the export and
\* of the extraction make no such call.
ScrapeIdle ==
    /\ scrapeArgs = <<>> /\ scrapeEnv = <<>> /\ scrapePc = "idle"
    /\ scrapeLog = <<>> /\ product_data = <<>> /\ scrapeRet = "unset"

PopupIdle ==
    /\ popupIn = <<>> /\ popupPc = "idle" /\ popup_found = FALSE
    /\ country_clicked = FALSE /\ popupLog = <<>>

SearchIdle ==
    /\ searchEnv = <<>> /\ searchPc = "idle" /\ searchPos = 0
    /\ searchLog = <<>> /\ searchRet = "unset"

LoadIdle == csvFile = <<>> /\ loadPc = "idle" /\ loadRet = <<>>

BatchIdle ==
    /\ batchEnv = <<>> /\ batchPc = "idle" /\ index = 0
    /\ all_results = <<>> /\ successful = 0 /\ failed = 0
    /\ scraper = "None" /\ closes = 0 /\ savedResults = <<>> /\ batchRet = "unset"

DriverIdle == ScrapeIdle /\ PopupIdle /\ SearchIdle /\ LoadIdle /\ BatchIdle

CoreIdle == NormIdle /\ LineIdle /\ CsvIdle /\ ExtractIdle

InitNorm ==
    /\ normIn \in NormInputs /\ normOut = None /\ normPc = "call"
    /\ LineIdle /\ CsvIdle /\ ExtractIdle /\ DriverIdle

InitLine ==
    /\ lineIn \in LineInputs /\ lineOut = NoLineOut /\ linePc = "call"
    /\ NormIdle /\ CsvIdle /\ ExtractIdle /\ DriverIdle

InitCsv ==
    /\ products \in CsvInputs /\ ioFails \in BOOLEAN /\ csvPc = "call"
    /\ csvRows = <<>> /\ csvFieldnames = <<>>
    /\ csvWritten = FALSE /\ csvHeader = <<>> /\ csvLines = <<>>
    /\ csvRet = "unset" /\ csvLog = "none"
    /\ NormIdle /\ LineIdle /\ ExtractIdle /\ DriverIdle

\* product_data as line 781 builds it, at the first specification method.
InitExtract ==
    /\ doc \in DocsWith(MaxFeatures)
    /\ specifications = <<>> /\ pc = "m0"
    /\ spec_section_found = "unbound" /\ clicked = <<>> /\ attempted = <<>>
    /\ availability = None /\ aborted = FALSE
    /\ NormIdle /\ LineIdle /\ CsvIdle /\ DriverIdle

(***************************************************************************)
(* Actions                                                                 *)
(***************************************************************************)
\* One call clean_text_for_csv(normIn).
CleanText ==
    /\ normPc = "call"
    /\ normOut' = clean_text_for_csv(normIn)
    /\ normPc' = "done"
    /\ UNCHANGED <<normIn, lineVars, csvVars, extractVars, driverVars>>

\* One line of text through the line loop body of each text strategy, the
\* map empty before it: lines 1061-1074, 1091-1098, 1233-1248, 1308-1314
\* and 1400-1416.
SplitLine ==
    /\ linePc = "call"
    /\ lineOut' = [section |-> SectionLine(<<>>, lineIn),
                   sibling |-> SiblingLine(<<>>, lineIn),
                   list |-> ListItem(<<>>, lineIn),
                   generic |-> GenericLine(<<>>, lineIn),
                   free |-> FreeTextLine(<<>>, lineIn)]
    /\ linePc' = "done"
    /\ UNCHANGED <<lineIn, normVars, csvVars, extractVars, driverVars>>

\* save_to_csv(products) with nothing to save: warning, return None.
SaveNothing ==
    /\ csvPc = "call"
    /\ products = <<>>
    /\ csvLog' = "warning"
    /\ csvRet' = "None"
    /\ csvPc' = "done"
    /\ UNCHANGED <<products, ioFails, csvRows, csvFieldnames,
                   csvWritten, csvHeader, csvLines, normVars, lineVars, extractVars, driverVars>>

\* save_to_csv(products) whose open() raises: the except clause logs the
\* error and returns None.
SaveFails ==
    /\ csvPc = "call"
    /\ products # <<>>
    /\ ioFails
    /\ csvRows' = BuildRows(products)
    /\ csvFieldnames' = Fieldnames(csvRows')
    /\ csvLog' = "error"
    /\ csvRet' = "None"
    /\ csvPc' = "done"
    /\ UNCHANGED <<products, ioFails, csvWritten, csvHeader, csvLines, normVars, lineVars, extractVars, driverVars>>

\* save_to_csv(products) that writes the file and returns its name.
SaveWrites ==
    /\ csvPc = "call"
    /\ products # <<>>
    /\ ~ioFails
    /\ csvRows' = BuildRows(products)
    /\ csvFieldnames' = Fieldnames(csvRows')
    /\ csvWritten' = TRUE
    /\ csvHeader' = csvFieldnames'
    /\ csvLines' = [i \in DOMAIN csvRows' |-> WriteRow(csvRows'[i], csvFieldnames')]
    /\ csvLog' = "info"
    /\ csvRet' = "filename"
    /\ csvPc' = "done"
    /\ UNCHANGED <<products, ioFails, normVars, lineVars, extractVars, driverVars>>

\* The specification methods of extract_product_data, in program order, and
\* the step after each.
Methods == <<"m0", "section", "m1", "m2", "m3", "m4", "m5", "m6", "m7", "m8", "m9", "m10">>

\* Mutant: the list-item method is placed before the definition lists.
After_listfirst(m) ==
    CASE m = "m0" -> "section" [] m = "section" -> "m1" [] m = "m1" -> "m4"
      [] m = "m4" -> "m2" [] m = "m2" -> "m3" [] m = "m3" -> "m5"
      [] m = "m5" -> "m6" [] m = "m6" -> "m7" [] m = "m7" -> "m8"
      [] m = "m8" -> "m9" [] m = "m9" -> "m10" [] m = "m10" -> "avail"

After(m) ==
    CASE m = "m0" -> "section" [] m = "section" -> "m1" [] m = "m1" -> "m2"
      [] m = "m2" -> "m3" [] m = "m3" -> "m4" [] m = "m4" -> "m5"
      [] m = "m5" -> "m6" [] m = "m6" -> "m7" [] m = "m7" -> "m8"
      [] m = "m8" -> "m9" [] m = "m9" -> "m10" [] m = "m10" -> "avail"

\* What method m makes of the map, its query raising or not.
MethodResult(m, d, sp) ==
    IF m \in d.raises THEN sp
    ELSE CASE m = "m0" -> SpecTableUls(sp, d.spec_uls)
           [] m = "m1" -> SpecTables(sp, d.spec_tables)
           [] m = "m2" -> DlSelectors(sp, d.dl_lists)
           [] m = "m3" -> ForEach(DivItem, sp, d.spec_items)
           [] m = "m4" -> ForEach(SpecList, sp, d.spec_lists)
           [] m = "m5" -> ForEach(AccordionSection, sp, d.accordions)
           [] m = "m6" -> ForEach(GenericDiv, sp, d.spec_divs)
           [] m = "m7" -> ForEach(JsonScript, sp, d.json_ld)
           [] m = "m8" -> AnyTables(sp, AllTables(d))
           [] m = "m9" -> ForEach(FreeText, sp, d.text_elems)
           [] m = "m10" -> ForEach(DataElement, sp, d.data_elems)

Ran(m, before, after) == [name |-> m, before |-> before, after |-> after]

\* A method that runs whatever the map holds (methods 0 and 1).
Unguarded(m) ==
    /\ pc = m
    /\ specifications' = MethodResult(m, doc, specifications)
    /\ attempted' = Append(attempted, Ran(m, specifications, specifications'))
    /\ pc' = After(m)
    /\ UNCHANGED <<doc, spec_section_found, clicked, availability, aborted,
                   normVars, lineVars, csvVars, driverVars>>

\* Mutant: the method runs whatever the map holds.
Guarded_always(m) ==
    /\ pc = m
    /\ specifications' = MethodResult(m, doc, specifications)
    /\ attempted' = Append(attempted, Ran(m, specifications, specifications'))
    /\ pc' = After(m)
    /\ UNCHANGED <<doc, spec_section_found, clicked, availability, aborted,
                   normVars, lineVars, csvVars, driverVars>>

\* A method under "if not product_data['specifications']" (methods 2 to 10).
Guarded(m) ==
    /\ pc = m
    /\ IF specifications = <<>>
       THEN /\ specifications' = MethodResult(m, doc, specifications)
            /\ attempted' = Append(attempted, Ran(m, specifications, specifications'))
       ELSE UNCHANGED <<specifications, attempted>>
    /\ pc' = After(m)
    /\ UNCHANGED <<doc, spec_section_found, clicked, availability, aborted,
                   normVars, lineVars, csvVars, driverVars>>

Method0 == Unguarded("m0")

\* Lines 987-1111 when spec_section_found is bound at line 1110.
LabeledSection ==
    /\ pc = "section"
    /\ LET r == SectionResult(specifications, spec_section_found, clicked, doc.sections)
       IN  /\ r.found # "unbound"
           /\ specifications' = r.specs
           /\ spec_section_found' = r.found
           /\ clicked' = r.clicked
           /\ attempted' = Append(attempted, Ran("section", specifications, r.specs))
    /\ pc' = "m1"
    /\ UNCHANGED <<doc, availability, aborted, normVars, lineVars, csvVars, driverVars>>

\* Lines 987-1111 when it is not: line 1110 raises UnboundLocalError, the
\* except clause of line 1485 logs it and the function returns product_data.
LabeledSectionUnbound ==
    /\ pc = "section"
    /\ LET r == SectionResult(specifications, spec_section_found, clicked, doc.sections)
       IN  /\ r.found = "unbound"
           /\ specifications' = r.specs
           /\ spec_section_found' = r.found
           /\ clicked' = r.clicked
           /\ attempted' = Append(attempted, Ran("section", specifications, r.specs))
    /\ aborted' = TRUE
    /\ pc' = "done"
    /\ UNCHANGED <<doc, availability, normVars, lineVars, csvVars, driverVars>>

Method1 == Unguarded("m1")
Method2 == Guarded("m2")
Method3 == Guarded("m3")
Method4 == Guarded("m4")
Method5 == Guarded("m5")
Method6 == Guarded("m6")
Method7 == Guarded("m7")
Method8 == Guarded("m8")
Method9 == Guarded("m9")
Method10 == Guarded("m10")

\* Lines 1469-1488: the first availability element's text, then return.
Availability ==
    /\ pc = "avail"
    /\ availability' = IF doc.availability = <<>> THEN None
                       ELSE strip(Head(doc.availability))
    /\ pc' = "done"
    /\ UNCHANGED <<doc, specifications, spec_section_found, clicked, attempted, aborted,
                   normVars, lineVars, csvVars, driverVars>>

save_to_csv == SaveNothing \/ SaveFails \/ SaveWrites

extract_product_data ==
    \/ Method0 \/ LabeledSection \/ LabeledSectionUnbound \/ Method1
    \/ Method2 \/ Method3 \/ Method4 \/ Method5 \/ Method6 \/ Method7
    \/ Method8 \/ Method9 \/ Method10 \/ Availability

NextNorm == CleanText
NextLine == SplitLine
NextCsv == SaveNothing \/ SaveFails \/ SaveWrites
NextExtract ==
    \/ Method0 \/ LabeledSection \/ LabeledSectionUnbound \/ Method1
    \/ Method2 \/ Method3 \/ Method4 \/ Method5 \/ Method6 \/ Method7
    \/ Method8 \/ Method9 \/ Method10 \/ Availability

SpecNorm == InitNorm /\ [][NextNorm]_vars
SpecLine == InitLine /\ [][NextLine]_vars
SpecCsv == InitCsv /\ [][NextCsv]_vars
SpecExtract == InitExtract /\ [][NextExtract]_vars

(***************************************************************************)
(* Helpers of the properties                                               *)
(***************************************************************************)
\* The words of a text: its maximal runs of non-whitespace tokens.
RECURSIVE Fields(_, _)
Fields(s, cur) ==
    IF s = <<>> THEN (IF cur = <<>> THEN <<>> ELSE <<cur>>)
    ELSE IF IsSpace(Head(s))
         THEN (IF cur = <<>> THEN <<>> ELSE <<cur>>) \o Fields(Tail(s), <<>>)
    ELSE Fields(Tail(s), Append(cur, Head(s)))

RECURSIVE JoinSpaces(_)
JoinSpaces(ws) ==
    IF ws = <<>> THEN <<>>
    ELSE IF Len(ws) = 1 THEN ws[1]
    ELSE ws[1] \o <<" ">> \o JoinSpaces(Tail(ws))

\* The specification entries of a record, in iteration order (none when the
\* record has no specification dict).
SpecsOf(product) ==
    LET specs == Get(product, "specifications", <<>>)
    IN  IF specs = NoneSpecs THEN <<>> ELSE specs

\* The normalized, non-empty specification keys of a record.
CleanKeys(product) ==
    {clean_text_for_csv(SpecsOf(product)[n][1]) : n \in DOMAIN SpecsOf(product)} \ {<<>>}

\* The row of a record after its first n specification entries.
RowAfter(product, n) ==
    AddSpecifications(StandardRow(product), SubSeq(SpecsOf(product), 1, n))

Saved == csvPc = "done" /\ products # <<>>

(***************************************************************************)
(* C7: clean_text_for_csv maps None to "" and any other text to its words   *)
(* joined by single spaces: no line break, no two adjacent whitespace       *)
(* characters, no surrounding whitespace; normalizing the result again      *)
(* changes nothing.                                                         *)
(***************************************************************************)
C7_Normalize ==
    normPc = "done" =>
        /\ normIn = None => normOut = <<>>
        /\ normIn # None => normOut = JoinSpaces(Fields(normIn, <<>>))
        /\ \A i \in DOMAIN normOut : normOut[i] \notin {"\n", "\r"}
        /\ \A i \in 1..(Len(normOut) - 1) :
               ~(IsSpace(normOut[i]) /\ IsSpace(normOut[i + 1]))
        /\ normOut # <<>> => ~IsSpace(normOut[1]) /\ ~IsSpace(normOut[Len(normOut)])
        /\ clean_text_for_csv(normOut) = normOut

C7_Witness ==
    /\ normPc = "done"
    /\ normIn = <<"a", "\n", "a">>
    /\ normOut = <<"a", " ", "a">>

(***************************************************************************)
(* C3: when a specification key normalizes to a column the row already has, *)
(* the cell becomes its previous content followed by "; " and the           *)
(* normalized new value.                                                    *)
(***************************************************************************)
C3_AppendKeepsExisting ==
    Saved =>
        \A i \in DOMAIN products :
            /\ csvRows[i] = RowAfter(products[i], Len(SpecsOf(products[i])))
            /\ \A n \in DOMAIN SpecsOf(products[i]) :
                 LET before == RowAfter(products[i], n - 1)
                     after == RowAfter(products[i], n)
                     key == clean_text_for_csv(SpecsOf(products[i])[n][1])
                     value == SpecsOf(products[i])[n][2]
                 IN  (key # <<>> /\ key \in DOMAIN before) =>
                        after[key] = CsvField(before[key]) \o Joiner
                                        \o clean_text_for_csv(value)

(***************************************************************************)
(* C4: the header is the standard columns occurring in any row, in the      *)
(* fixed standard order, followed by every other column of any row in       *)
(* increasing string order; no column occurs twice, also when a             *)
(* specification key equals a standard column name.                         *)
(***************************************************************************)
NonStandard(f) == SelectSeq(f, LAMBDA k : k \notin Range(standard_fields))

C4_Header ==
    Saved =>
        LET f == csvFieldnames
            cols == Range(standard_fields)
                      \cup UNION {CleanKeys(products[i]) : i \in DOMAIN products}
            std == SelectSeq(f, LAMBDA k : k \in Range(standard_fields))
            rest == NonStandard(f)
        IN  /\ Range(f) = cols
            /\ Len(f) = Cardinality(cols)
            /\ f = std \o rest
            /\ std = SelectSeq(standard_fields, LAMBDA k : k \in cols)
            /\ \A a, b \in DOMAIN rest : a < b => StrLess(rest[a], rest[b])
            /\ csvWritten => csvHeader = f

C4_Witness ==
    /\ Saved
    /\ Len(NonStandard(csvFieldnames)) >= 2
    /\ \E i \in DOMAIN products : ColPrice \in CleanKeys(products[i])

(***************************************************************************)
(* C5: every permutation of the record list gives the same header, column   *)
(* for column.                                                              *)
(***************************************************************************)
Permuted(prods, p) == [i \in DOMAIN prods |-> prods[p[i]]]

C5_HeaderOrderIndependent ==
    Saved =>
        \A p \in Permutations(DOMAIN products) :
            Fieldnames(BuildRows(Permuted(products, p))) = csvFieldnames

C5_Witness ==
    /\ Saved
    /\ Len(products) >= 2
    /\ CleanKeys(products[1]) = {<<"b">>}
    /\ CleanKeys(products[2]) = {<<"a">>}
    /\ NonStandard(csvFieldnames) = <<<<"a">>, <<"b">>>>

(***************************************************************************)
(* C6: every written row has one cell per header column; the cell is the    *)
(* row's value when the record supplies one and the empty string otherwise: *)
(* empty for a column only another record has, empty for a null or missing  *)
(* field, never a null.                                                     *)
(***************************************************************************)
C6_RowsMatchHeader ==
    csvWritten =>
        /\ DOMAIN csvLines = DOMAIN products
        /\ \A i \in DOMAIN csvLines :
            /\ DOMAIN csvLines[i] = DOMAIN csvHeader
            /\ \A j \in DOMAIN csvHeader :
                 LET col == csvHeader[j]
                     cell == csvLines[i][j]
                     collides == col \in CleanKeys(products[i])
                 IN  /\ cell # None
                     /\ col \in DOMAIN csvRows[i] => cell = CsvField(csvRows[i][col])
                     /\ (col \notin Range(standard_fields) /\ ~collides) => cell = <<>>
                     /\ (col \in Range(standard_fields) /\ ~collides
                           /\ Get(products[i], FieldOf[col], None) = None) => cell = <<>>

C6_Witness ==
    /\ csvWritten
    /\ Len(products) >= 2
    /\ products[1] = ProfileNulls
    /\ <<"a">> \in CleanKeys(products[2])
    /\ \E j \in DOMAIN csvHeader : csvHeader[j] = <<"a">> /\ csvLines[1][j] = <<>>

(***************************************************************************)
(* C8 as stated: the URL cell of every row is the record's url unchanged,   *)
(* whatever the specification keys, and every other standard cell is the    *)
(* normalized field.                                                        *)
(***************************************************************************)
C8_UrlNeverTouched ==
    Saved =>
        \A i \in DOMAIN products :
            \A col \in Range(standard_fields) :
                csvRows[i][col] =
                    IF col = ColURL THEN Get(products[i], "url", <<>>)
                    ELSE clean_text_for_csv(Get(products[i], FieldOf[col], <<>>))

(***************************************************************************)
(* C8 amended: the same for every standard column that no specification     *)
(* key of the record normalizes to.                                         *)
(***************************************************************************)
C8_UrlUnchangedUnlessCollision ==
    Saved =>
        \A i \in DOMAIN products :
            \A col \in Range(standard_fields) \ CleanKeys(products[i]) :
                csvRows[i][col] =
                    IF col = ColURL THEN Get(products[i], "url", <<>>)
                    ELSE clean_text_for_csv(Get(products[i], FieldOf[col], <<>>))

C8_Witness ==
    /\ Saved
    /\ products[1]["url"] = <<"u", " ", " ", "v">>
    /\ CleanKeys(products[1]) = {<<"a">>, ColPrice}
    /\ csvRows[1][ColURL] = <<"u", " ", " ", "v">>

(***************************************************************************)
(* C9: an empty record sequence yields an empty table, an outcome other     *)
(* than that of a failed export (no file, None returned).                   *)
(***************************************************************************)
C9_EmptyInputIsNotAFailure ==
    (csvPc = "done" /\ products = <<>>) =>
        /\ csvWritten /\ csvLines = <<>>
        /\ <<csvRet, csvWritten>> # <<"None", FALSE>>

(***************************************************************************)
(* Helpers of the extraction properties                                    *)
(***************************************************************************)
\* What a method finds in a page on its own, starting from an empty map.
OwnResult(m, d) == MethodResult(m, d, <<>>)

\* The query of method m finds at least one element.
Locates(m, d) ==
    /\ m \notin d.raises
    /\ CASE m = "m0" -> d.spec_uls # <<>>
         [] m = "section" -> d.sections # <<>>
         [] m = "m1" -> d.spec_tables # <<>>
         [] m = "m2" -> d.dl_lists # <<>>
         [] m = "m3" -> d.spec_items # <<>>
         [] m = "m4" -> d.spec_lists # <<>>
         [] m = "m5" -> d.accordions # <<>>
         [] m = "m6" -> d.spec_divs # <<>>
         [] m = "m7" -> d.json_ld # <<>>
         [] m = "m8" -> AllTables(d) # <<>>
         [] m = "m9" -> d.text_elems # <<>>
         [] m = "m10" -> d.data_elems # <<>>

Returned == pc = "done"

(***************************************************************************)
(* C1: when the ul.spec-table method yields at least one entry, the         *)
(* returned map is exactly that method's entries: no entry of the labeled   *)
(* section, of the generic tables or of a later method is added.            *)
(***************************************************************************)
C1_SpecTableResultReturnedAlone ==
    (Returned /\ OwnResult("m0", doc) # <<>>) =>
        specifications = OwnResult("m0", doc)

(***************************************************************************)
(* C2: when no method finds a structure the returned map is empty and no    *)
(* exception was raised; a method that finds no structure (or whose query   *)
(* raises) leaves the map as it was and the chain goes on after it.         *)
(***************************************************************************)
C2_NothingFoundChainContinues ==
    Returned =>
        /\ (\A m \in Range(Methods) : ~Locates(m, doc)) =>
               /\ specifications = <<>>
               /\ ~aborted
               /\ Len(attempted) = Len(Methods)
        /\ \A i \in DOMAIN attempted :
               ~Locates(attempted[i].name, doc) =>
                   /\ attempted[i].after = attempted[i].before
                   /\ ~(aborted /\ i = Len(attempted))

(***************************************************************************)
(* C10: every key of the specification map is trimmed and does not end      *)
(* with a colon, whichever method stored it.                                *)
(***************************************************************************)
C10_KeysTrimmedNoColon ==
    \A i \in DOMAIN specifications :
        /\ strip(specifications[i][1]) = specifications[i][1]
        /\ ~endswith(specifications[i][1], Colon)

(***************************************************************************)
(* C11: every entry of the specification map has a non-empty key and a      *)
(* non-empty value, whichever method stored it (the JSON-LD and the         *)
(* data-attribute methods included).                                        *)
(***************************************************************************)
C11_EntriesNonEmpty ==
    \A i \in DOMAIN specifications :
        /\ specifications[i][1] # <<>>
        /\ specifications[i][2] # <<>>

(***************************************************************************)
(* C12: the steps of one call are attempted one after another in the order  *)
(* of the ten strategies (ul.spec-table, labeled section, tables by class,  *)
(* definition lists, key/value divs, list items, tagged elements, JSON-LD,  *)
(* any table, free text), and no other step that extracts specifications    *)
(* is attempted between or after them.                                      *)
(***************************************************************************)
TenStrategies == <<"m0", "section", "m1", "m2", "m3", "m4", "m6", "m7", "m8", "m9">>

PosIn(order, m) == CHOOSE i \in DOMAIN order : order[i] = m

InOrderOf(order) ==
    /\ \A i \in DOMAIN attempted : attempted[i].name \in Range(order)
    /\ \A i, j \in DOMAIN attempted :
           i < j => PosIn(order, attempted[i].name) < PosIn(order, attempted[j].name)
    /\ \A i \in DOMAIN attempted :
           i > 1 => attempted[i].before = attempted[i - 1].after

Split == linePc = "done"

\* The line cut at every sep gives exactly two parts, both non-empty when
\* trimmed, the left one more than lo and fewer than hi characters long.
TwoParts(line, sep, lo, hi) ==
    LET parts == split(line, sep, <<>>)
    IN  /\ Len(parts) = 2
        /\ strip(parts[1]) # <<>> /\ strip(parts[2]) # <<>>
        /\ lo < len(strip(parts[1])) /\ len(strip(parts[1])) < hi

Candidate(line, seps, lo, hi) == \E sep \in seps : TwoParts(line, sep, lo, hi)

(***************************************************************************)
(* C13: in each text strategy (section text, sibling text, list items,      *)
(* tagged elements, free text) a line gives a pair only if cutting it at    *)
(* the delimiter gives exactly two parts, both non-empty when trimmed, and  *)
(* the key is within the length bound: 3 to 79 characters in the section    *)
(* text, 3 to 49 in the free text, under 100 (the widest bound the code     *)
(* has) elsewhere.  Every other line adds nothing.                          *)
(***************************************************************************)
C13_OnlyTwoPartLines ==
    Split =>
        /\ lineOut.section # <<>> => Candidate(lineIn, {Colon, Dash}, 2, 80)
        /\ lineOut.sibling # <<>> => Candidate(lineIn, {Colon}, 0, 100)
        /\ lineOut.list # <<>> => Candidate(lineIn, {Colon, Dash}, 0, 100)
        /\ lineOut.generic # <<>> => Candidate(lineIn, {Colon}, 0, 100)
        /\ lineOut.free # <<>> => Candidate(lineIn, {Colon, Dash}, 2, 50)

(***************************************************************************)
(* C14: a line with exactly one colon, both sides non-empty when trimmed    *)
(* and the key within the length bound, is cut into key = the trimmed left  *)
(* side and value = the trimmed right side; a line with no colon and        *)
(* exactly one ' - ' likewise at the ' - '.  The section text stores that   *)
(* pair; the free text stores that pair or, when its value bound or its     *)
(* stoplist rejects the pair, nothing.                                      *)
(***************************************************************************)
Count(s, t) == Cardinality({i \in DOMAIN s : s[i] = t})

\* The two sides of the line around its only colon, trimmed.
ColonSides(line) ==
    LET i == CHOOSE k \in DOMAIN line : line[k] = ":"
    IN  <<strip(SubSeq(line, 1, i - 1)), strip(SubSeq(line, i + 1, Len(line)))>>

DashAt(line) == {k \in 1..(Len(line) - 2) : SubSeq(line, k, k + 2) = Dash}

\* The two sides of the line around its only ' - ', trimmed.
DashSides(line) ==
    LET i == CHOOSE k \in DashAt(line) : TRUE
    IN  <<strip(SubSeq(line, 1, i - 1)), strip(SubSeq(line, i + 3, Len(line)))>>

\* The sides the claim speaks of, <<>> when the line is not of its kind.
SidesOf(line) ==
    IF Count(line, ":") = 1 THEN ColonSides(line)
    ELSE IF Count(line, ":") = 0 /\ Cardinality(DashAt(line)) = 1 THEN DashSides(line)
    ELSE <<>>

Within(sides, lo, hi) ==
    /\ sides # <<>>
    /\ sides[1] # <<>> /\ sides[2] # <<>>
    /\ lo < len(sides[1]) /\ len(sides[1]) < hi

C14_SplitYieldsTrimmedSides ==
    Split =>
        LET sides == SidesOf(lineIn)
        IN  /\ Within(sides, 2, 80) => lineOut.section = <<sides>>
            /\ Within(sides, 2, 50) => lineOut.free \in {<<sides>>, <<>>}
            /\ (Within(sides, 2, 50) /\ len(sides[2]) < 200 /\ ~HasSkipWord(sides[1]))
                   => lineOut.free = <<sides>>

\* 'SKU : a' gives SKU / a in both strategies.
C14_Witness ==
    /\ Split
    /\ lineIn = <<"SKU", " ", ":", " ", "a">>
    /\ lineOut.section = << <<<<"SKU">>, <<"a">>>> >>
    /\ lineOut.free = << <<<<"SKU">>, <<"a">>>> >>

(***************************************************************************)
(* C15: every pair the free-text method takes from a line, by the colon     *)
(* cut or by the ' - ' cut, has a key that holds none of the stoplist       *)
(* terms, a key of 3 to 49 characters and a value under 200 characters.     *)
(***************************************************************************)
C15_FreeTextFiltered ==
    Split =>
        \A i \in DOMAIN lineOut.free :
            /\ ~HasSkipWord(lineOut.free[i][1])
            /\ 2 < len(lineOut.free[i][1]) /\ len(lineOut.free[i][1]) < 50
            /\ len(lineOut.free[i][2]) < 200

(***************************************************************************)
(* Helpers of the properties of single methods                              *)
(***************************************************************************)
\* Method m ran, starting from the empty map.
RanFromEmpty(m) ==
    \E i \in DOMAIN attempted : attempted[i].name = m /\ attempted[i].before = <<>>

\* The map method m left.
LeftBy(m) ==
    LET i == CHOOSE k \in DOMAIN attempted : attempted[k].name = m
    IN  attempted[i].after

(***************************************************************************)
(* C16: an element is clicked only by the labeled-section step, only when   *)
(* it is a button or a link, and only when no earlier method has left the   *)
(* map non-empty.                                                           *)
(***************************************************************************)
C16_ClicksOnlyWhileMapEmpty ==
    /\ \A i \in DOMAIN clicked : clicked[i].tag \in {"button", "a"}
    /\ clicked # <<>> => RanFromEmpty("section")

(***************************************************************************)
(* C17: the definition-list method pairs the i-th <dt> of a list with the   *)
(* i-th <dd> of the same list, for the indices both have; a term or a       *)
(* description beyond the shorter length gives no entry, and a pair with an *)
(* empty side is skipped without moving the pairs after it.                 *)
(***************************************************************************)
\* The <dl>s of the page, whichever selector finds them.
AllDls(d) == UNION {Range(d.dl_lists[g]) : g \in DOMAIN d.dl_lists}

SameIndexPair(dl, i, entry) ==
    /\ i <= Len(dl.dts) /\ i <= Len(dl.dds)
    /\ entry[1] = strip(dl.dts[i]) /\ entry[2] = strip(dl.dds[i])
    /\ entry[1] # <<>> /\ entry[2] # <<>>

C17_PairsByPosition ==
    RanFromEmpty("m2") =>
        LET after == LeftBy("m2")
        IN  /\ \A e \in DOMAIN after :
                   \E dl \in AllDls(doc) : \E i \in DOMAIN dl.dts :
                       SameIndexPair(dl, i, after[e])
            /\ "m2" \notin doc.raises /\ doc.dl_lists # <<>> =>
                   \A dl \in Range(Head(doc.dl_lists)) : \A i \in DOMAIN dl.dts :
                       (/\ i <= Len(dl.dds)
                        /\ strip(dl.dts[i]) # <<>> /\ strip(dl.dds[i]) # <<>>)
                           => \E e \in DOMAIN after : after[e][1] = strip(dl.dts[i])

\* A list whose first term is blank and which has one description too many:
\* its second term is paired with its second description.
C17_Witness ==
    /\ Returned
    /\ RanFromEmpty("m2")
    /\ doc.dl_lists # <<>>
    /\ Head(doc.dl_lists) = <<DlGap>>
    /\ LeftBy("m2") = << <<<<"b">>, <<"y">>>> >>

(***************************************************************************)
(* C18: the any-table method takes an entry only from a table of at least   *)
(* two rows and a row of at least two cells, the first cell the name and    *)
(* the second the value, and never one whose name is, in lower case, home,  *)
(* products, services, about, contact or menu.                              *)
(***************************************************************************)
FromTableRow(table, r, entry) ==
    /\ Len(table) >= 2
    /\ Len(table[r]) >= 2
    /\ entry[1] = strip(table[r][1]) /\ entry[2] = strip(table[r][2])

C18_AnyTableFiltered ==
    RanFromEmpty("m8") =>
        LET after == LeftBy("m8")
        IN  \A e \in DOMAIN after :
                /\ lower(after[e][1]) \notin NavStoplist
                /\ \E table \in Range(AllTables(doc)) : \E r \in DOMAIN table :
                       FromTableRow(table, r, after[e])

\* The table of a navigation bar gives nothing; the table after it, of two
\* rows, one of them of three cells, gives its two entries.
C18_Witness ==
    /\ Returned
    /\ RanFromEmpty("m8")
    /\ AllTables(doc) = <<TableNav, TableTwo>>
    /\ LeftBy("m8") = << <<<<"c">>, <<"y">>>>, <<<<"d">>, <<"x">>>> >>

(***************************************************************************)
(* C19: every entry of the JSON-LD method comes from a property of          *)
(* offers.itemOffered whose key is none of @type, @context, name, image,    *)
(* description and whose value is a string or a number; the entry's value   *)
(* is the string form of that value.  A property holding an object, an      *)
(* array or null gives nothing.                                             *)
(***************************************************************************)
FromProperty(kv, entry) ==
    /\ kv[1] = entry[1]
    /\ kv[1] \notin JsonStoplist
    /\ kv[2].t \in {"str", "int", "float"}
    /\ entry[2] = PyStr(kv[2])

C19_JsonScalarsOnly ==
    RanFromEmpty("m7") =>
        LET after == LeftBy("m7")
        IN  \A e \in DOMAIN after :
                \E j \in DOMAIN doc.json_ld :
                    /\ doc.json_ld[j].kind = "item"
                    /\ \E p \in DOMAIN doc.json_ld[j].props :
                           FromProperty(doc.json_ld[j].props[p], after[e])

(***************************************************************************)
(* C20: methods 2 to 10 run only while the map is empty; once a method has  *)
(* left it non-empty, none of them adds or overwrites an entry.             *)
(***************************************************************************)
GuardedMethods == {"m2", "m3", "m4", "m5", "m6", "m7", "m8", "m9", "m10"}

C20_LaterMethodsGuarded ==
    /\ \A i \in DOMAIN attempted :
           attempted[i].name \in GuardedMethods => attempted[i].before = <<>>
    /\ \A i \in DOMAIN attempted :
           (attempted[i].name \in GuardedMethods \cup {"m1"} /\ attempted[i].after # <<>>)
               => /\ i = Len(attempted)
                  /\ specifications = attempted[i].after

\* The definition lists gave the map; the key/value divs of the page, which
\* hold a pair too, were not read.
C20_Witness ==
    /\ Returned /\ ~aborted
    /\ attempted[Len(attempted)].name = "m2"
    /\ specifications # <<>>
    /\ OwnResult("m3", doc) # <<>>

(***************************************************************************)
(* C21: every call looks the availability up after the specification        *)
(* methods and before it returns, whichever method gave the map and         *)
(* whether or not the page has a labeled section: the returned availability *)
(* is the trimmed text of the first availability element of the page, None  *)
(* when the page has none, and the call was not cut short.                  *)
(***************************************************************************)
C21_AvailabilityAlwaysLookedUp ==
    Returned =>
        /\ ~aborted
        /\ availability = IF doc.availability = <<>> THEN None
                          ELSE strip(Head(doc.availability))

(***************************************************************************)
(* C22: the row of a record does not depend on the order in which the       *)
(* entries of its specification map were inserted.                          *)
(***************************************************************************)
\* The record with its specification entries in the order p.
Reordered(product, p) ==
    IF SpecsOf(product) = <<>> THEN product
    ELSE [product EXCEPT !["specifications"] = [n \in DOMAIN SpecsOf(product) |-> SpecsOf(product)[p[n]]]]

RowOrderIndependent(i) ==
    \A p \in Permutations(DOMAIN SpecsOf(products[i])) :
        BuildRow(Reordered(products[i], p)) = csvRows[i]

C22_RowIndependentOfMapOrder ==
    Saved => \A i \in DOMAIN products : RowOrderIndependent(i)

(***************************************************************************)
(* C22, amended: the same, for a record no two of whose specification keys  *)
(* normalize to the same column name.                                       *)
(***************************************************************************)
DistinctCleanKeys(product) ==
    \A m, n \in DOMAIN SpecsOf(product) :
        (/\ m # n
         /\ clean_text_for_csv(SpecsOf(product)[m][1]) # <<>>)
            => clean_text_for_csv(SpecsOf(product)[m][1])
                   # clean_text_for_csv(SpecsOf(product)[n][1])

C22_RowIndependentOfMapOrderDistinctKeys ==
    Saved =>
        \A i \in DOMAIN products :
            DistinctCleanKeys(products[i]) => RowOrderIndependent(i)

\* A record of two entries, one of them on the Price column, the other a
\* column of its own.
C22_Witness ==
    /\ Saved
    /\ Len(SpecsOf(products[1])) = 2
    /\ DistinctCleanKeys(products[1])
    /\ CleanKeys(products[1]) = {<<"Price">>, <<"a">>}
    /\ csvRows[1][<<"Price">>] # clean_text_for_csv(products[1]["price"])

(***************************************************************************)
(* AvantorScraper.scrape_product: one product, from navigation to the      *)
(* returned record.  The methods it calls are taken by their outcome: what *)
(* the page makes them return, and whether a driver call raises.           *)
(***************************************************************************)
base_url == "https://www.avantorsciences.com/"

\* The specification maps extract_product_data and the supplementary scan can
\* come back with.
SpecMapA == <<<< <<"a">>, <<"x">> >>>>
SpecMapB == <<<< <<"b">>, <<"y">> >>>>

ScrapeArgs ==
    [product_code : {"c1", "c2"}, country_name : {"None", "USA"},
     country_url : {"None", "", "u"}]

\* raises: the driver call that raises, if any ("get", "current_url" read by
\* extract_product_data at line 790, "scroll" of lines 1544-1546).
ScrapeEnvs ==
    [raises : {"none", "get", "current_url", "scroll"},
     found : BOOLEAN,
     sku : {"None", "c1", "zz"},
     extracted : {<<>>, SpecMapA},
     additional : {<<>>, SpecMapB}]

\* Line 1504: "if country_url:" (None and the empty string are false).
Truthy(s) == s \notin {"None", ""}

InitScrape ==
    /\ scrapeArgs \in ScrapeArgs /\ scrapeEnv \in ScrapeEnvs
    /\ scrapePc = "start" /\ scrapeLog = <<>>
    /\ product_data = <<>> /\ scrapeRet = "unset"
    /\ CoreIdle /\ PopupIdle /\ SearchIdle /\ LoadIdle /\ BatchIdle

ScrapeOthers == <<normVars, lineVars, csvVars, extractVars,
                  popupVars, searchVars, loadVars, batchVars>>

\* The except clause of lines 1559-1561.
ScrapeExcept ==
    /\ scrapeRet' = "None"
    /\ scrapePc' = "done"

Navigate_popupalways ==
    /\ scrapePc = "start"
    /\ LET url == IF Truthy(scrapeArgs.country_url) THEN scrapeArgs.country_url ELSE base_url
       IN  /\ scrapeLog' = Append(scrapeLog, <<"get", url>>)
           /\ IF scrapeEnv.raises = "get" THEN ScrapeExcept
              ELSE /\ scrapePc' = "popup"
                   /\ scrapeRet' = scrapeRet
    /\ UNCHANGED <<scrapeArgs, scrapeEnv, product_data, ScrapeOthers>>

\* Lines 1504-1508 and 1513-1516: the page the browser is sent to.
Navigate ==
    /\ scrapePc = "start"
    /\ LET url == IF Truthy(scrapeArgs.country_url) THEN scrapeArgs.country_url ELSE base_url
       IN  /\ scrapeLog' = Append(scrapeLog, <<"get", url>>)
           /\ IF scrapeEnv.raises = "get" THEN ScrapeExcept
              ELSE /\ scrapePc' = IF Truthy(scrapeArgs.country_url) THEN "banner" ELSE "popup"
                   /\ scrapeRet' = scrapeRet
    /\ UNCHANGED <<scrapeArgs, scrapeEnv, product_data, ScrapeOthers>>

\* Line 1512.
CookieBanner ==
    /\ scrapePc = "banner"
    /\ scrapeLog' = Append(scrapeLog, <<"handle_cookie_banner", "">>)
    /\ scrapePc' = "search"
    /\ UNCHANGED <<scrapeArgs, scrapeEnv, product_data, scrapeRet, ScrapeOthers>>

\* Line 1520.
CountryPopup ==
    /\ scrapePc = "popup"
    /\ scrapeLog' = Append(scrapeLog, <<"handle_country_popup", scrapeArgs.country_name>>)
    /\ scrapePc' = "search"
    /\ UNCHANGED <<scrapeArgs, scrapeEnv, product_data, scrapeRet, ScrapeOthers>>

Search_ignored ==
    /\ scrapePc = "search"
    /\ scrapeLog' = Append(scrapeLog, <<"search_product", scrapeArgs.product_code>>)
    /\ scrapePc' = "expand"
    /\ scrapeRet' = scrapeRet
    /\ UNCHANGED <<scrapeArgs, scrapeEnv, product_data, ScrapeOthers>>

\* Lines 1523-1525.
Search ==
    /\ scrapePc = "search"
    /\ scrapeLog' = Append(scrapeLog, <<"search_product", scrapeArgs.product_code>>)
    /\ IF scrapeEnv.found
       THEN scrapePc' = "expand" /\ scrapeRet' = scrapeRet
       ELSE scrapePc' = "done" /\ scrapeRet' = "None"
    /\ UNCHANGED <<scrapeArgs, scrapeEnv, product_data, ScrapeOthers>>

\* Line 1531.
Expand ==
    /\ scrapePc = "expand"
    /\ scrapeLog' = Append(scrapeLog, <<"_expand_specification_sections", "">>)
    /\ scrapePc' = "extract"
    /\ UNCHANGED <<scrapeArgs, scrapeEnv, product_data, scrapeRet, ScrapeOthers>>

\* The record extract_product_data returns (line 1488): the code it read from
\* the page (line 826) and the specification map.
Extracted == [product_code |-> scrapeEnv.sku, specifications |-> scrapeEnv.extracted]

Extract_pagecode ==
    /\ scrapePc = "extract"
    /\ scrapeLog' = Append(scrapeLog, <<"extract_product_data", "">>)
    /\ IF scrapeEnv.raises = "current_url"
       THEN ScrapeExcept /\ product_data' = product_data
       ELSE /\ product_data' = Extracted
            /\ scrapePc' = "empty?"
            /\ scrapeRet' = scrapeRet
    /\ UNCHANGED <<scrapeArgs, scrapeEnv, ScrapeOthers>>

\* Lines 1537-1538.
Extract ==
    /\ scrapePc = "extract"
    /\ scrapeLog' = Append(scrapeLog, <<"extract_product_data", "">>)
    /\ IF scrapeEnv.raises = "current_url"
       THEN ScrapeExcept /\ product_data' = product_data
       ELSE /\ product_data' = [Extracted EXCEPT !.product_code = scrapeArgs.product_code]
            /\ scrapePc' = "empty?"
            /\ scrapeRet' = scrapeRet
    /\ UNCHANGED <<scrapeArgs, scrapeEnv, ScrapeOthers>>

\* Lines 1541-1546: the test of the map and the two scrolls.
Scroll ==
    /\ scrapePc = "empty?"
    /\ product_data.specifications = <<>>
    /\ scrapeLog' = Append(scrapeLog, <<"scroll", "">>)
    /\ IF scrapeEnv.raises = "scroll"
       THEN ScrapeExcept
       ELSE scrapePc' = "scan" /\ scrapeRet' = scrapeRet
    /\ UNCHANGED <<scrapeArgs, scrapeEnv, product_data, ScrapeOthers>>

\* Lines 1549-1552; update() on the empty map leaves the scanned entries.
Scan ==
    /\ scrapePc = "scan"
    /\ scrapeLog' = Append(scrapeLog, <<"_extract_specs_from_all_elements", "">>)
    /\ product_data' = IF scrapeEnv.additional # <<>>
                       THEN [product_data EXCEPT !.specifications = scrapeEnv.additional]
                       ELSE product_data
    /\ scrapePc' = "dump"
    /\ UNCHANGED <<scrapeArgs, scrapeEnv, scrapeRet, ScrapeOthers>>

\* Line 1555.
Dump ==
    /\ scrapePc = "dump"
    /\ scrapeLog' = Append(scrapeLog, <<"_save_page_for_debugging", "">>)
    /\ scrapePc' = "return"
    /\ UNCHANGED <<scrapeArgs, scrapeEnv, product_data, scrapeRet, ScrapeOthers>>

\* Line 1557, reached past the test of line 1541 or past the dump.
ReturnData ==
    /\ \/ scrapePc = "empty?" /\ product_data.specifications # <<>>
       \/ scrapePc = "return"
    /\ scrapeRet' = "product_data"
    /\ scrapePc' = "done"
    /\ UNCHANGED <<scrapeArgs, scrapeEnv, scrapeLog, product_data, ScrapeOthers>>

scrape_product ==
    \/ Navigate \/ CookieBanner \/ CountryPopup \/ Search \/ Expand
    \/ Extract \/ Scroll \/ Scan \/ Dump \/ ReturnData

NextScrape == scrape_product

SpecScrape == InitScrape /\ [][NextScrape]_vars

\* The calls scrape_product made so far, by name.
Calls(name) == {i \in DOMAIN scrapeLog : scrapeLog[i][1] = name}
Called(name) == Calls(name) # {}
ScrapeDone == scrapePc = "done"

(***************************************************************************)
(* C23: scrape_product runs the supplementary scan and the debug dump only *)
(* when the map extract_product_data returned is empty; when that map is   *)
(* not empty the returned record holds exactly its entries; and every      *)
(* returned record carries the requested product code.                     *)
(***************************************************************************)
C23_ScanOnlyOnEmptyMap ==
    /\ (Called("_extract_specs_from_all_elements") \/ Called("_save_page_for_debugging"))
           => /\ Called("extract_product_data")
              /\ scrapeEnv.extracted = <<>>
    /\ (scrapeRet = "product_data" /\ scrapeEnv.extracted # <<>>)
           => /\ product_data.specifications = scrapeEnv.extracted
              /\ ~Called("_extract_specs_from_all_elements")
              /\ ~Called("_save_page_for_debugging")
    /\ scrapeRet = "product_data" => product_data.product_code = scrapeArgs.product_code

\* The page showed another code than the requested one and a non-empty map.
C23_Witness ==
    /\ scrapeRet = "product_data"
    /\ scrapeEnv.sku = "zz"
    /\ scrapeEnv.extracted = SpecMapA
    /\ product_data = [product_code |-> scrapeArgs.product_code, specifications |-> SpecMapA]
    /\ ~Called("scroll")

(***************************************************************************)
(* C24: extract_product_data is invoked only after search_product reported *)
(* success; when the search fails, or any step raises, scrape_product       *)
(* returns None without having run the section expansion, the extraction   *)
(* or the supplementary scan.                                               *)
(***************************************************************************)
Ran3 ==
    \/ Called("_expand_specification_sections")
    \/ Called("extract_product_data")
    \/ Called("_extract_specs_from_all_elements")

ExtractAfterSearch ==
    \A i \in Calls("extract_product_data") :
        /\ scrapeEnv.found
        /\ \E j \in Calls("search_product") : j < i

\* The step that raises was reached.
Raised ==
    \/ scrapeEnv.raises = "get" /\ Called("get")
    \/ scrapeEnv.raises = "current_url" /\ Called("extract_product_data")
    \/ scrapeEnv.raises = "scroll" /\ Called("scroll")

SearchFailed == Called("search_product") /\ ~scrapeEnv.found

C24_NoneWithoutExtraction ==
    /\ ExtractAfterSearch
    /\ (SearchFailed \/ Raised) => scrapeRet = "None" /\ ScrapeDone /\ ~Ran3

(***************************************************************************)
(* C24 as the code has it: extract_product_data is invoked only after       *)
(* search_product reported success; when the search fails, or a step up to *)
(* the search raises, None is returned and neither the expansion, the       *)
(* extraction nor the supplementary scan has run; when a later step raises *)
(* None is returned as well, the expansion and the extraction having run.  *)
(***************************************************************************)
C24_NoneWithoutExtractionUpToSearch ==
    /\ ExtractAfterSearch
    /\ (SearchFailed \/ Raised) => scrapeRet = "None" /\ ScrapeDone
    /\ (SearchFailed \/ (Raised /\ scrapeEnv.raises = "get")) => ~Ran3
    /\ (Raised /\ scrapeEnv.raises # "get")
           => /\ Called("_expand_specification_sections")
              /\ Called("extract_product_data")
              /\ ~Called("_extract_specs_from_all_elements")

C24_Witness ==
    /\ ScrapeDone /\ SearchFailed /\ scrapeRet = "None"
    /\ scrapeEnv.raises = "none" /\ ~Ran3

(***************************************************************************)
(* C25: with a country_url the browser is sent to that URL and only the     *)
(* cookie banner is handled: handle_country_popup is never called and the  *)
(* base URL never loaded; without one, the base URL is loaded and           *)
(* handle_country_popup called exactly once, both before the search.        *)
(***************************************************************************)
BeforeSearch == SubSeq(scrapeLog, 1, CHOOSE i \in Calls("search_product") : TRUE) 

C25_PopupIffNoCountryUrl ==
    /\ Truthy(scrapeArgs.country_url)
           => /\ ~Called("handle_country_popup")
              /\ \A i \in Calls("get") : scrapeLog[i][2] = scrapeArgs.country_url
              /\ Called("search_product")
                     => SubSeq(BeforeSearch, 1, 2) =
                            << <<"get", scrapeArgs.country_url>>, <<"handle_cookie_banner", "">> >>
    /\ ~Truthy(scrapeArgs.country_url)
           => /\ Cardinality(Calls("handle_country_popup")) <= 1
              /\ \A i \in Calls("get") : scrapeLog[i][2] = base_url
              /\ Called("search_product")
                     => SubSeq(BeforeSearch, 1, 2) =
                            << <<"get", base_url>>,
                               <<"handle_country_popup", scrapeArgs.country_name>> >>
    /\ Cardinality(Calls("search_product")) <= 1
    /\ Called("search_product") => Len(BeforeSearch) = 3

C25_Witness ==
    /\ ScrapeDone /\ scrapeArgs.country_url = "None"
    /\ scrapeRet = "product_data"
    /\ SubSeq(scrapeLog, 1, 3) = << <<"get", base_url>>, <<"handle_country_popup", "USA">>,
                                     <<"search_product", scrapeArgs.product_code>> >>

(***************************************************************************)
(* AvantorScraper.handle_country_popup: the cookie banner, the lookup of   *)
(* the popup, and the search for a country element to click.  The page is  *)
(* its country elements in document order; each has a text, a shape (a     *)
(* link inside a list item of the modal, or a button outside of it) and    *)
(* the first way of clicking it that does not raise.                       *)
(***************************************************************************)
CountryTexts == {"USA", "usa", "USA East"}

LinkShape == [tag |-> "a", li |-> TRUE, box |-> "modal"]
ButtonShape == [tag |-> "button", li |-> FALSE, box |-> "none"]

\* yields: "wait" when the element never becomes clickable, "none" when the
\* three ways of clicking all raise.
CountryElements ==
    [text : CountryTexts, shape : {LinkShape, ButtonShape},
     yields : {"wait", "click", "js", "chain", "none"}]

PopupInputs ==
    [country_name : {"None", "US", "Austria"},
     cookie : BOOLEAN,
     popup : BOOLEAN,
     elements : SeqsUpTo(CountryElements, MaxElems)]

\* str.lower on the texts and names above.
LowerText(t) ==
    CASE t = "USA" -> "usa"
      [] t = "US" -> "us"
      [] t = "USA East" -> "usa east"
      [] t = "United States" -> "united states"
      [] t = "Austria" -> "austria"
      [] OTHER -> t

\* XPath contains(t, n) on the texts and names above.
ContainsText(t, n) ==
    \/ t = n
    \/ <<t, n>> \in {<<"USA", "US">>, <<"USA East", "USA">>, <<"USA East", "US">>}

\* Lines 369-376.
country_variations(name) ==
    CASE name \in {"United States", "USA", "US"} -> <<"USA", "United States", "US">>
      [] name \in {"United Kingdom", "UK"} -> <<"United Kingdom", "UK">>
      [] name = "China Mainland" -> <<"China Mainland", "China">>
      [] OTHER -> <<>>

\* Lines 323-324 and 379-381.
search_names(country_name) ==
    LET name == IF country_name = "None" THEN "USA" ELSE country_name
    IN  <<name>> \o country_variations(name)

\* Lines 393-409: whether selector k of the list, written for name n, selects
\* element e.
Selects(k, n, e) ==
    LET link == e.shape.tag = "a"
        exact == e.text = n
    IN  CASE k = 1 -> link /\ exact
          [] k = 2 -> link /\ e.shape.li /\ exact
          [] k = 3 -> exact /\ e.shape.tag \in {"a", "button"}
          [] k = 4 -> link /\ e.shape.box = "modal" /\ exact
          [] k = 5 -> link /\ e.shape.box = "popup" /\ exact
          [] k = 6 -> link /\ ContainsText(e.text, n)
          [] k = 7 -> link /\ e.shape.li /\ ContainsText(e.text, n)
          [] k = 8 -> link /\ e.text = LowerText(n)
          [] k = 9 -> link /\ e.shape.li /\ e.text = LowerText(n)

\* A click the call tried.
Click(what, i, k, e, how, ok) ==
    [what |-> what, name |-> i, selector |-> k, elem |-> e, how |-> how, ok |-> ok]

\* Lines 417-446 for element e: the clicks tried on it, the last one the
\* one that did not raise, if any.
TryElement(i, k, e, yields) ==
    CASE yields = "wait" -> <<>>
      [] yields = "click" -> <<Click("country", i, k, e, "click", TRUE)>>
      [] yields = "js" -> <<Click("country", i, k, e, "click", FALSE),
                           Click("country", i, k, e, "js", TRUE)>>
      [] yields = "chain" -> <<Click("country", i, k, e, "click", FALSE),
                              Click("country", i, k, e, "js", FALSE),
                              Click("country", i, k, e, "chain", TRUE)>>
      [] OTHER -> <<Click("country", i, k, e, "click", FALSE),
                    Click("country", i, k, e, "js", FALSE),
                    Click("country", i, k, e, "chain", FALSE)>>

Succeeded(clicks) == clicks # <<>> /\ clicks[Len(clicks)].ok

\* The loops of lines 388-467 unrolled: name by name, selector by selector,
\* the elements the selector finds in document order, as <<name, selector,
\* element>> positions.
Candidates(names, elements) ==
    LET E == Len(elements)
        all == [f \in 1..(Len(names) * 9 * E) |->
                   <<((f - 1) \div (9 * E)) + 1, (((f - 1) \div E) % 9) + 1, ((f - 1) % E) + 1>>]
    IN  SelectSeq(all, LAMBDA t : Selects(t[2], names[t[1]], elements[t[3]]))

RECURSIVE ClickFrom_nobreak(_, _)
ClickFrom_nobreak(cands, elements) ==
    IF cands = <<>> THEN <<>>
    ELSE LET t == Head(cands)
         IN  TryElement(t[1], t[2], t[3], elements[t[3]].yields)
                 \o ClickFrom_nobreak(Tail(cands), elements)

\* The candidates are tried in turn; the three loops are left as soon as a
\* click did not raise (lines 453, 460, 467).
RECURSIVE ClickFrom(_, _)
ClickFrom(cands, elements) ==
    IF cands = <<>> THEN <<>>
    ELSE LET t == Head(cands)
             tried == TryElement(t[1], t[2], t[3], elements[t[3]].yields)
         IN  IF Succeeded(tried) THEN tried
             ELSE tried \o ClickFrom(Tail(cands), elements)

InitPopup ==
    /\ popupIn \in PopupInputs /\ popupPc = "cookie" /\ popup_found = FALSE
    /\ country_clicked = FALSE /\ popupLog = <<>>
    /\ CoreIdle /\ ScrapeIdle /\ SearchIdle /\ LoadIdle /\ BatchIdle

PopupOthers == <<normVars, lineVars, csvVars, extractVars,
                 scrapeVars, searchVars, loadVars, batchVars>>

\* Line 327, with handle_cookie_banner (lines 68-99): the accept button, when
\* the page shows one, is clicked by script.
PopupCookie ==
    /\ popupPc = "cookie"
    /\ popupLog' = IF popupIn.cookie
                   THEN Append(popupLog, Click("cookie", 0, 0, 0, "js", TRUE))
                   ELSE popupLog
    /\ popupPc' = "popup"
    /\ UNCHANGED <<popupIn, popup_found, country_clicked, PopupOthers>>

\* Lines 341-362.
FindPopup ==
    /\ popupPc = "popup"
    /\ popup_found' = popupIn.popup
    /\ popupPc' = IF popupIn.popup THEN "countries" ELSE "done"
    /\ UNCHANGED <<popupIn, country_clicked, popupLog, PopupOthers>>

\* Lines 365-467.
ClickCountry ==
    /\ popupPc = "countries"
    /\ LET tried == ClickFrom(Candidates(search_names(popupIn.country_name), popupIn.elements),
                            popupIn.elements)
       IN  /\ popupLog' = popupLog \o tried
           /\ country_clicked' = Succeeded(tried)
    /\ popupPc' = "done"
    /\ UNCHANGED <<popupIn, popup_found, PopupOthers>>

handle_country_popup == PopupCookie \/ FindPopup \/ ClickCountry

NextPopup == handle_country_popup

SpecPopup == InitPopup /\ [][NextPopup]_vars

CountryClicks == {i \in DOMAIN popupLog : popupLog[i].what = "country"}
PopupDone == popupPc = "done"

\* exact text, partial text, case-insensitive text
SelectorClass(k) == IF k <= 5 THEN 1 ELSE IF k <= 7 THEN 2 ELSE 3

AtMostOneCountry ==
    /\ Cardinality({i \in CountryClicks : popupLog[i].ok}) <= 1
    /\ \A i \in CountryClicks : popupLog[i].ok => i = Len(popupLog)
    /\ country_clicked <=> (\E i \in CountryClicks : popupLog[i].ok)

ExactFirst ==
    \A i, j \in CountryClicks :
        (i < j /\ popupLog[i].name = popupLog[j].name)
            => SelectorClass(popupLog[i].selector) <= SelectorClass(popupLog[j].selector)

(***************************************************************************)
(* C26: in one call of handle_country_popup at most one country element is *)
(* successfully clicked and nothing is tried after that click; for each    *)
(* name the exact-text selectors come before the partial and the           *)
(* case-insensitive ones; when the popup is not found the call returns     *)
(* without clicking anything.                                              *)
(***************************************************************************)
C26_AtMostOneClick ==
    /\ AtMostOneCountry
    /\ ExactFirst
    /\ (PopupDone /\ ~popup_found) => popupLog = <<>>

(***************************************************************************)
(* C26 as the code has it: the same, except that when the popup is not     *)
(* found the call returns without clicking any country element; the accept *)
(* button of the cookie banner, handled before the popup is looked for,    *)
(* may have been clicked.                                                  *)
(***************************************************************************)
C26_AtMostOneCountryClick ==
    /\ AtMostOneCountry
    /\ ExactFirst
    /\ (PopupDone /\ ~popup_found) => CountryClicks = {}

\* The first element, matched by the exact selectors, could not be clicked in
\* any way; the second, matched by a partial selector only, was clicked by
\* script, and that was the end.
C26_Witness ==
    /\ PopupDone /\ popup_found /\ country_clicked
    /\ Len(popupIn.elements) = 2
    /\ popupIn.elements[1].yields = "none"
    /\ \E i, j \in CountryClicks :
           /\ i < j /\ popupLog[i].name = popupLog[j].name
           /\ popupLog[i].selector = 1 /\ popupLog[i].elem = 1
           /\ popupLog[j].selector = 6 /\ popupLog[j].elem = 2
           /\ popupLog[j].how = "js" /\ popupLog[j].ok

(***************************************************************************)
(* AvantorScraper.search_product.  The page is taken by what the driver    *)
(* calls do on it: which selector finds the search input, whether clearing *)
(* and typing raise, and for each button selector whether it finds no      *)
(* element, an element whose click raises, or one whose click goes through.*)
(***************************************************************************)
SearchSelectors == 1..6     \* the list of lines 527-534
ButtonSelectors == 1..5     \* the list of lines 555-561

SearchEnvs ==
    [product_code : {"c1"},
     input : {0} \cup SearchSelectors,
     typing : {"ok", "clear", "send_keys"},
     buttons : [ButtonSelectors -> {"absent", "raises", "clicks"}],
     enter : {"ok", "raises"}]

InitSearch ==
    /\ searchEnv \in SearchEnvs /\ searchPc = "find" /\ searchPos = 0
    /\ searchLog = <<>> /\ searchRet = "unset"
    /\ CoreIdle /\ ScrapeIdle /\ PopupIdle /\ LoadIdle /\ BatchIdle

SearchOthers == <<normVars, lineVars, csvVars, extractVars,
                  scrapeVars, popupVars, loadVars, batchVars>>

\* What the call did to the page: what, through which selector, and whether
\* the driver call returned rather than raised.
Did(what, at, ok) == [what |-> what, at |-> at, ok |-> ok]

\* The except clause of lines 582-584.
SearchExcept ==
    /\ searchRet' = "False"
    /\ searchPc' = "done"

\* Lines 536-547.
FindInput ==
    /\ searchPc = "find"
    /\ IF searchEnv.input = 0
       THEN searchRet' = "False" /\ searchPc' = "done"
       ELSE searchRet' = searchRet /\ searchPc' = "type"
    /\ UNCHANGED <<searchEnv, searchPos, searchLog, SearchOthers>>

\* Lines 550-552.
TypeCode ==
    /\ searchPc = "type"
    /\ CASE searchEnv.typing = "clear" ->
                /\ searchLog' = Append(searchLog, Did("clear", searchEnv.input, FALSE))
                /\ SearchExcept /\ searchPos' = searchPos
         [] searchEnv.typing = "send_keys" ->
                /\ searchLog' = searchLog \o <<Did("clear", searchEnv.input, TRUE),
                                               Did(searchEnv.product_code, searchEnv.input, FALSE)>>
                /\ SearchExcept /\ searchPos' = searchPos
         [] OTHER ->
                /\ searchLog' = searchLog \o <<Did("clear", searchEnv.input, TRUE),
                                               Did(searchEnv.product_code, searchEnv.input, TRUE)>>
                /\ searchPc' = "buttons" /\ searchPos' = 1
                /\ searchRet' = searchRet
    /\ UNCHANGED <<searchEnv, SearchOthers>>

TryButton_nobreak ==
    /\ searchPc = "buttons"
    /\ LET found == searchEnv.buttons[searchPos]
       IN  /\ searchLog' = IF found = "absent" THEN searchLog
                           ELSE Append(searchLog, Did("click", searchPos, found = "clicks"))
           /\ IF searchPos < 5
              THEN searchPc' = "buttons" /\ searchPos' = searchPos + 1
              ELSE searchPc' = "enter" /\ searchPos' = searchPos
    /\ UNCHANGED <<searchEnv, searchRet, SearchOthers>>

\* One turn of the loop of lines 563-570; past its last turn comes the else
\* clause of line 571.
TryButton ==
    /\ searchPc = "buttons"
    /\ LET found == searchEnv.buttons[searchPos]
       IN  /\ searchLog' = IF found = "absent" THEN searchLog
                           ELSE Append(searchLog, Did("click", searchPos, found = "clicks"))
           /\ IF found = "clicks"
              THEN searchPc' = "return" /\ searchPos' = searchPos
              ELSE IF searchPos < 5
                   THEN searchPc' = "buttons" /\ searchPos' = searchPos + 1
                   ELSE searchPc' = "enter" /\ searchPos' = searchPos
    /\ UNCHANGED <<searchEnv, searchRet, SearchOthers>>

\* Lines 571-574.
PressEnter ==
    /\ searchPc = "enter"
    /\ searchLog' = Append(searchLog, Did("enter", searchEnv.input, searchEnv.enter = "ok"))
    /\ IF searchEnv.enter = "raises" THEN SearchExcept
       ELSE searchPc' = "return" /\ searchRet' = searchRet
    /\ UNCHANGED <<searchEnv, searchPos, SearchOthers>>

\* Lines 577-580.
SearchReturn ==
    /\ searchPc = "return"
    /\ searchRet' = "True"
    /\ searchPc' = "done"
    /\ UNCHANGED <<searchEnv, searchPos, searchLog, SearchOthers>>

search_product == FindInput \/ TypeCode \/ TryButton \/ PressEnter \/ SearchReturn

NextSearch == search_product

SpecSearch == InitSearch /\ [][NextSearch]_vars

SearchDone == searchPc = "done"
Typed == {i \in DOMAIN searchLog : searchLog[i].what = searchEnv.product_code}
Submits == {i \in DOMAIN searchLog : searchLog[i].what \in {"click", "enter"} /\ searchLog[i].ok}
Clickable == {k \in ButtonSelectors : searchEnv.buttons[k] = "clicks"}

\* The one submit is the click through the first selector whose button can be
\* clicked, or Enter when there is no such selector.
OneSubmit ==
    /\ Cardinality(Submits) = 1
    /\ \A i \in Submits :
           IF Clickable = {} THEN searchLog[i].what = "enter"
           ELSE /\ searchLog[i].what = "click"
                /\ searchLog[i].at = CHOOSE k \in Clickable : \A j \in Clickable : k <= j

NoInputNoTyping ==
    (SearchDone /\ searchEnv.input = 0) => searchRet = "False" /\ searchLog = <<>>

(***************************************************************************)
(* C29: a call of search_product that finds a search input types the       *)
(* product code once and then performs exactly one submit action, the      *)
(* click on the first button, in selector order, whose click succeeds, or  *)
(* one Enter keypress when no click succeeded; a call that finds no input  *)
(* returns False without typing or submitting.                             *)
(***************************************************************************)
C29_TypeOnceSubmitOnce ==
    /\ (SearchDone /\ searchEnv.input # 0)
           => /\ Cardinality(Typed) = 1 /\ \A i \in Typed : searchLog[i].ok
              /\ OneSubmit
              /\ \A i \in Typed, j \in Submits : i < j
    /\ NoInputNoTyping

(***************************************************************************)
(* C29 as the code has it: the same for a call in which neither clearing   *)
(* and typing nor the Enter keypress raises; when clearing or typing       *)
(* raises the call returns False without any submit action, and when the   *)
(* Enter keypress raises it returns False, the code typed and no submit    *)
(* action having succeeded.  At no point has more than one submit action   *)
(* succeeded, and Enter is pressed only after all five clicks failed.      *)
(***************************************************************************)
EnterNeeded == Clickable = {}

C29_TypeOnceSubmitOnceUnlessRaised ==
    /\ (SearchDone /\ searchEnv.input # 0 /\ searchEnv.typing = "ok"
            /\ ~(EnterNeeded /\ searchEnv.enter = "raises"))
           => /\ searchRet = "True"
              /\ Cardinality(Typed) = 1 /\ \A i \in Typed : searchLog[i].ok
              /\ OneSubmit
              /\ \A i \in Typed, j \in Submits : i < j
    /\ (SearchDone /\ searchEnv.input # 0 /\ searchEnv.typing # "ok")
           => /\ searchRet = "False"
              /\ \A i \in DOMAIN searchLog : searchLog[i].what \notin {"click", "enter"}
    /\ (SearchDone /\ searchEnv.input # 0 /\ searchEnv.typing = "ok"
            /\ EnterNeeded /\ searchEnv.enter = "raises")
           => searchRet = "False" /\ Cardinality(Typed) = 1 /\ Submits = {}
    /\ Cardinality(Submits) <= 1
    /\ \A i \in DOMAIN searchLog :
           searchLog[i].what = "enter" => EnterNeeded /\ i = Len(searchLog)
    /\ NoInputNoTyping

\* The first button could not be found, the click on the second raised, the
\* click on the third went through; the fourth could have been clicked too.
C29_Witness ==
    /\ SearchDone /\ searchRet = "True"
    /\ searchEnv.buttons = <<"absent", "raises", "clicks", "clicks", "absent">>
    /\ Len(searchLog) = 4
    /\ searchLog[3] = Did("click", 2, FALSE)
    /\ searchLog[4] = Did("click", 3, TRUE)

(***************************************************************************)
(* load_product_codes_from_csv (scrape_with_country_selection.py).  The    *)
(* file is its header and its data rows as csv.DictReader sees them: a row *)
(* shorter than the header reads None in the missing columns.              *)
(***************************************************************************)
possible_columns ==
    <<"product_code", "product code", "Product Code", "code", "Code",
      "catalog_number", "catalog number", "Catalog Number", "SKU", "sku">>

CsvHeaders ==
    {<<"name", "product_code">>, <<"SKU", "name">>, <<"id", "name">>, <<"Code", "product_code">>}

CsvCells == {<<"A">>, <<" ", "A">>, <<"B">>, <<" ">>, <<>>}

\* Rows of one cell or of two.
CsvFileRows ==
    {<<c>> : c \in CsvCells} \cup {<<c, d>> : c \in {<<"A">>, <<"n">>}, d \in CsvCells}

CsvFiles ==
    [exists : BOOLEAN, header : CsvHeaders, rows : SeqsUpTo(CsvFileRows, MaxRows)]

\* Lines 137-146: the first of possible_columns the header has, else the
\* first column of the header.
product_code_column(header) ==
    LET hits == {i \in DOMAIN possible_columns : possible_columns[i] \in Range(header)}
    IN  IF hits = {} THEN header[1]
        ELSE possible_columns[CHOOSE i \in hits : \A j \in hits : i <= j]

\* row.get(column) on a row of the DictReader.
Cell(header, row, column) ==
    LET at == CHOOSE i \in DOMAIN header : header[i] = column
    IN  IF at <= Len(row) THEN row[at] ELSE None

\* Lines 149-150: the first row's code, kept when the cell is not empty.
FirstCode(header, rows) ==
    LET v == Cell(header, rows[1], product_code_column(header))
    IN  IF v = None \/ v = <<>> THEN <<>> ELSE <<strip(v)>>

\* Lines 153-156 from row i on, product_codes being what was collected so
\* far: the codes collected and whether .strip() met None and raised.
RECURSIVE ReadRows(_, _, _, _)
ReadRows(header, rows, i, product_codes) ==
    IF i > Len(rows) THEN [codes |-> product_codes, raised |-> FALSE]
    ELSE LET v == Cell(header, rows[i], product_code_column(header))
         IN  IF v = None THEN [codes |-> product_codes, raised |-> TRUE]
             ELSE ReadRows(header, rows, i + 1,
                           IF strip(v) # <<>> THEN Append(product_codes, strip(v))
                           ELSE product_codes)

\* Lines 159-164.
RECURSIVE unique_codes(_, _)
unique_codes(product_codes, seen) ==
    IF product_codes = <<>> THEN <<>>
    ELSE LET code == Head(product_codes)
         IN  IF code # <<>> /\ code \notin seen
             THEN <<code>> \o unique_codes(Tail(product_codes), seen \cup {code})
             ELSE unique_codes(Tail(product_codes), seen)

\* The list product_codes when the reading of the file ends.
Collected == ReadRows(csvFile.header, csvFile.rows, 2, FirstCode(csvFile.header, csvFile.rows))

InitLoad ==
    /\ csvFile \in CsvFiles /\ loadPc = "call" /\ loadRet = <<>>
    /\ CoreIdle /\ ScrapeIdle /\ PopupIdle /\ SearchIdle /\ BatchIdle

LoadOthers == <<normVars, lineVars, csvVars, extractVars,
                scrapeVars, popupVars, searchVars, batchVars>>

\* Lines 118-120.
LoadNoFile ==
    /\ loadPc = "call" /\ ~csvFile.exists
    /\ loadRet' = <<>>
    /\ loadPc' = "no file"
    /\ UNCHANGED <<csvFile, LoadOthers>>

\* Lines 131-134.
LoadEmpty ==
    /\ loadPc = "call" /\ csvFile.exists /\ csvFile.rows = <<>>
    /\ loadRet' = <<>>
    /\ loadPc' = "empty"
    /\ UNCHANGED <<csvFile, LoadOthers>>

\* Lines 136-167.
LoadUnique ==
    /\ loadPc = "call" /\ csvFile.exists /\ csvFile.rows # <<>>
    /\ ~Collected.raised
    /\ loadRet' = unique_codes(Collected.codes, {})
    /\ loadPc' = "unique"
    /\ UNCHANGED <<csvFile, LoadOthers>>

\* Lines 136-156 and 169-171.
LoadRaises ==
    /\ loadPc = "call" /\ csvFile.exists /\ csvFile.rows # <<>>
    /\ Collected.raised
    /\ loadRet' = Collected.codes
    /\ loadPc' = "except"
    /\ UNCHANGED <<csvFile, LoadOthers>>

load_product_codes_from_csv == LoadNoFile \/ LoadEmpty \/ LoadUnique \/ LoadRaises

NextLoad == load_product_codes_from_csv

SpecLoad == InitLoad /\ [][NextLoad]_vars

Loaded == loadPc \in {"no file", "empty", "unique", "except"}

\* The trimmed non-empty codes of the rows read, in file order.
RECURSIVE CodesRead(_, _, _)
CodesRead(header, rows, i) ==
    IF i > Len(rows) THEN <<>>
    ELSE LET v == Cell(header, rows[i], product_code_column(header))
         IN  IF v = None THEN IF i = 1 THEN CodesRead(header, rows, 2) ELSE <<>>
             ELSE (IF strip(v) = <<>> THEN <<>> ELSE <<strip(v)>>)
                      \o CodesRead(header, rows, i + 1)

NoDuplicates(s) == \A i, j \in DOMAIN s : i # j => s[i] # s[j]

\* s lists each member of t once, in the order of its first occurrence in t.
FirstOccurrences(s, t) ==
    /\ NoDuplicates(s) /\ Range(s) = Range(t)
    /\ \A i, j \in DOMAIN s :
           i < j => (CHOOSE m \in DOMAIN t : t[m] = s[i] /\ \A n \in 1..(m - 1) : t[n] # s[i])
                      < (CHOOSE m \in DOMAIN t : t[m] = s[j] /\ \A n \in 1..(m - 1) : t[n] # s[j])

(***************************************************************************)
(* C28: on every return path the list load_product_codes_from_csv returns  *)
(* holds no code twice and no empty code, holds each code trimmed, and     *)
(* keeps the codes in the order of their first occurrence in the file.     *)
(***************************************************************************)
C28_UniqueTrimmedCodes ==
    Loaded =>
        /\ NoDuplicates(loadRet)
        /\ \A i \in DOMAIN loadRet : loadRet[i] # <<>> /\ strip(loadRet[i]) = loadRet[i]
        /\ csvFile.exists
               => FirstOccurrences(loadRet, CodesRead(csvFile.header, csvFile.rows, 1))

(***************************************************************************)
(* scrape_products_from_csv and scrape_product_interactive                 *)
(* (scrape_with_country_selection.py), with AvantorScraper.close.  The run *)
(* is taken by how its steps end: the questions asked before the scraper   *)
(* is built, the constructor, each call of scrape_product, the saving.     *)
(* The i-th product code of the list is written i.                         *)
(***************************************************************************)
\* How the part before the construction ends: it goes on ("ok"), returns
\* (lines 186-189, 194-195, 204-206, 212-214, 222-225; 338-341, 346-347,
\* 356-358) or is interrupted at a prompt.
BatchPreludes == {"ok", "no countries", "no selection", "no path", "no codes", "cancelled",
                  "interrupt"}
SinglePreludes == {"ok", "no countries", "no selection", "no code", "interrupt"}

\* How one turn of the loop ends: scrape_product returns a record or None, an
\* exception is raised before an entry is appended, or the user interrupts,
\* during scrape_product or during the wait of line 270.
BatchOutcomes == {"record", "None", "raises", "interrupt", "interrupt in wait"}
SingleOutcomes == {"record", "None", "interrupt"}

SaveOutcomes == {"ok", "csv fails", "json raises", "interrupt"}

BatchEnvs ==
    [mode : {"batch"}, prelude : BatchPreludes, construct : {"ok", "raises"},
     outcomes : SeqsUpTo(BatchOutcomes, MaxCodes) \ {<<>>}, save : SaveOutcomes]
    \cup
    [mode : {"single"}, prelude : SinglePreludes, construct : {"ok", "raises"},
     outcomes : [{1} -> SingleOutcomes], save : SaveOutcomes]

NothingSaved == [csv |-> <<>>, json |-> <<>>]

InitBatch ==
    /\ batchEnv \in BatchEnvs /\ batchPc = "start" /\ index = 0
    /\ all_results = <<>> /\ successful = 0 /\ failed = 0
    /\ scraper = "None" /\ closes = 0 /\ savedResults = NothingSaved /\ batchRet = "unset"
    /\ CoreIdle /\ ScrapeIdle /\ PopupIdle /\ SearchIdle /\ LoadIdle

BatchOthers == <<normVars, lineVars, csvVars, extractVars,
                 scrapeVars, popupVars, searchVars, loadVars>>

\* Lines 177-231 and 329-363: every way out of this part leads to the
\* finally clause, with scraper still None.
Prelude ==
    /\ batchPc = "start"
    /\ batchPc' = IF batchEnv.prelude = "ok" THEN "construct" ELSE "finally"
    /\ UNCHANGED <<batchEnv, index, all_results, successful, failed, scraper, closes,
                   savedResults, batchRet, BatchOthers>>

\* Lines 233-238 and 366: the constructor raises when setup_driver does (line
\* 66 of the scraper), and the assignment to scraper is not made.
Construct ==
    /\ batchPc = "construct"
    /\ IF batchEnv.construct = "raises"
       THEN scraper' = scraper /\ batchPc' = "finally" /\ index' = index
       ELSE /\ scraper' = "AvantorScraper"
            /\ batchPc' = IF batchEnv.mode = "batch" THEN "loop" ELSE "single"
            /\ index' = 1
    /\ UNCHANGED <<batchEnv, all_results, successful, failed, closes, savedResults, batchRet,
                   BatchOthers>>

\* The entries of lines 253 and 260-264 / 278-282.
Record(code) == [product_code |-> code, entry |-> "record"]
Placeholder(code) == [product_code |-> code, entry |-> "error"]

Iterate_dropfailed ==
    /\ batchPc = "loop"
    /\ LET outcome == batchEnv.outcomes[index]
           last == index = Len(batchEnv.outcomes)
       IN  CASE outcome = "interrupt" ->
                    /\ batchPc' = "save"
                    /\ UNCHANGED <<index, all_results, successful, failed>>
             [] outcome \in {"record", "interrupt in wait"} ->
                    /\ all_results' = Append(all_results, Record(index))
                    /\ successful' = successful + 1
                    /\ failed' = failed
                    /\ index' = index + 1
                    /\ batchPc' = IF last \/ outcome = "interrupt in wait" THEN "save" ELSE "loop"
             [] OTHER ->
                    /\ all_results' = all_results
                    /\ failed' = failed + 1
                    /\ successful' = successful
                    /\ index' = index + 1
                    /\ batchPc' = IF last THEN "save" ELSE "loop"
    /\ UNCHANGED <<batchEnv, scraper, closes, savedResults, batchRet, BatchOthers>>

\* One turn of the loop of lines 240-283.  The wait of line 270 is skipped
\* for the last code, so nothing can interrupt it there.
Iterate ==
    /\ batchPc = "loop"
    /\ LET outcome == batchEnv.outcomes[index]
           last == index = Len(batchEnv.outcomes)
       IN  CASE outcome = "interrupt" ->
                    /\ batchPc' = "save"
                    /\ UNCHANGED <<index, all_results, successful, failed>>
             [] outcome \in {"record", "interrupt in wait"} ->
                    /\ all_results' = Append(all_results, Record(index))
                    /\ successful' = successful + 1
                    /\ failed' = failed
                    /\ index' = index + 1
                    /\ batchPc' = IF last \/ outcome = "interrupt in wait" THEN "save" ELSE "loop"
             [] OTHER ->
                    /\ all_results' = Append(all_results, Placeholder(index))
                    /\ failed' = failed + 1
                    /\ successful' = successful
                    /\ index' = index + 1
                    /\ batchPc' = IF last THEN "save" ELSE "loop"
    /\ UNCHANGED <<batchEnv, scraper, closes, savedResults, batchRet, BatchOthers>>

\* What lines 300-307 leave on disk: save_to_csv, which returns None when it
\* fails, then json.dump.
Written ==
    CASE batchEnv.save = "ok" -> [csv |-> all_results, json |-> all_results]
      [] batchEnv.save = "csv fails" -> [csv |-> <<>>, json |-> all_results]
      [] batchEnv.save = "json raises" -> [csv |-> all_results, json |-> <<>>]
      [] OTHER -> NothingSaved

\* Lines 286-313.
SaveAll ==
    /\ batchPc = "save"
    /\ savedResults' = IF all_results = <<>> THEN savedResults ELSE Written
    /\ batchPc' = "finally"
    /\ UNCHANGED <<batchEnv, index, all_results, successful, failed, scraper, closes,
                   batchRet, BatchOthers>>

\* Lines 369-389: the one call of scrape_product and the saving of its
\* record, json.dump first and save_to_csv after it.
ScrapeSingle ==
    /\ batchPc = "single"
    /\ savedResults' =
           IF batchEnv.outcomes[1] = "record"
           THEN [csv |-> IF batchEnv.save = "ok" THEN <<Record(1)>> ELSE <<>>,
                 json |-> IF batchEnv.save \in {"ok", "csv fails"} THEN <<Record(1)>> ELSE <<>>]
           ELSE savedResults
    /\ batchPc' = "finally"
    /\ UNCHANGED <<batchEnv, index, all_results, successful, failed, scraper, closes,
                   batchRet, BatchOthers>>

Finally_closealways ==
    /\ batchPc = "finally"
    /\ closes' = closes + 1
    /\ batchRet' = "None"
    /\ batchPc' = "done"
    /\ UNCHANGED <<batchEnv, index, all_results, successful, failed, scraper, savedResults,
                   BatchOthers>>

\* The finally clause of lines 321-323 and 397-399, with close (lines
\* 1677-1681 of the scraper): the driver of a scraper that was built is set.
Finally ==
    /\ batchPc = "finally"
    /\ closes' = IF scraper # "None" THEN closes + 1 ELSE closes
    /\ batchRet' = "None"
    /\ batchPc' = "done"
    /\ UNCHANGED <<batchEnv, index, all_results, successful, failed, scraper, savedResults,
                   BatchOthers>>

scrape_products_from_csv == Prelude \/ Construct \/ Iterate \/ SaveAll \/ Finally

scrape_product_interactive == Prelude \/ Construct \/ ScrapeSingle \/ Finally

NextBatch ==
    \/ Prelude \/ Construct \/ Iterate \/ SaveAll \/ ScrapeSingle \/ Finally

SpecBatch == InitBatch /\ [][NextBatch]_vars

BatchDone == batchPc = "done"
InBatch == batchEnv.mode = "batch" /\ scraper # "None"

\* The loop was left by the break of line 274.
Broke ==
    /\ InBatch /\ batchPc \in {"save", "finally", "done"}
    /\ \E i \in DOMAIN batchEnv.outcomes :
           \/ batchEnv.outcomes[i] = "interrupt"
           \/ batchEnv.outcomes[i] = "interrupt in wait" /\ i < Len(batchEnv.outcomes)

C30_ClosedExactlyOnce ==
    /\ BatchDone => closes = (IF scraper # "None" THEN 1 ELSE 0)
    /\ ~BatchDone => closes = 0
    /\ scraper # "None" => batchEnv.prelude = "ok" /\ batchEnv.construct = "ok"

\* The saving was interrupted after the scraper had been built and a record
\* scraped: the browser was closed all the same.
C30_Witness ==
    /\ BatchDone /\ scraper # "None" /\ closes = 1
    /\ batchEnv.save = "interrupt" /\ all_results # <<>>
    /\ savedResults = NothingSaved

====
